---- MODULE Spec2Model ----
(***************************************************************************)
(* Model of the markdown guideline parser of mcp-typescript-assistant      *)
(* (internal/guidelines/parser.go).  A Go string is a sequence of          *)
(* characters, each a one-character string, so that splitting, trimming,   *)
(* lower-casing, substring search and the regular expressions are          *)
(* computed character by character, as the Go code computes them.          *)
(***************************************************************************)
EXTENDS Integers, Sequences, FiniteSets, TLC

VARIABLES
    content,         \* ParseGuidelines argument: the markdown text
    name,            \* ParseGuidelines argument: the set name
    guidelineType,   \* ParseGuidelines argument: the kind label
    now,             \* the clock reading time.Now() returns, in seconds
    pc,              \* position of the call
    guidelineSet,    \* the *types.GuidelineSet under construction
    err,             \* the error result of ParseGuidelines
    sections,        \* parseContent: result of splitIntoSections
    secIdx,          \* parseContent: loop index i (0-based, as in Go)
    guidelines,      \* parseContent: the slice being built
    lines,           \* parseSection: strings.Split(section, "\n")
    lineIdx,         \* parseSection: number of lines already scanned
    guideline,       \* parseSection: the *types.Guideline, or the nil value
    currentContent,  \* parseSection: strings.Builder of the open code block
    inCodeBlock,     \* parseSection: inside a fenced block
    currentExample,  \* parseSection: *types.GuidelineExample, possibly nil
    lastKind,        \* classification of the line scanned last (history)
    heap,            \* the GuidelineSet objects allocated, by address
    registry,        \* Analyzer.guidelines: map from set name to address
    loads,           \* the addresses passed to LoadGuidelines (history)
    request,         \* the parameters of the handler called last
    response,        \* the result the handler called last returned
    warnings,        \* the result of ValidateGuidelines
    calls,           \* the functions the handler called last invoked (history)
    loadErr,         \* the error result of ParseGuidelinesFromFile
    first,           \* the set the first of two calls returned
    other,           \* the frame of the goroutine that is not running
    tscTool,         \* Handlers.tscTool: the *tools.TypeScriptCompiler
    commands,        \* the commands run with os/exec (history)
    loader,          \* the goroutine that handles load-guidelines requests
    reader           \* the goroutine that handles requests ranging over the map

vars ==
    <<content, name, guidelineType, now, pc, guidelineSet, err, sections, secIdx,
      guidelines, lines, lineIdx, guideline, currentContent, inCodeBlock,
      currentExample, lastKind, heap, registry, loads, request, response,
      warnings, calls, loadErr, first, other, tscTool, commands, loader,
      reader>>

\* the TypeScript compiler tool and the commands it ran
tools ==
    <<tscTool, commands>>

\* the goroutines of two requests handled at the same time
goroutines ==
    <<loader, reader>>

\* the state outside the call of ParseGuidelines
outer ==
    <<heap, registry, loads, request, response, warnings, calls, loadErr,
      first, other, tools, goroutines>>

---------------------------------------------------------------------------
(* Bounds of the inputs.                                                   *)

\* size of the largest input of the exhaustive family: the lines of the
\* document plus the other arguments that differ from their first value
MaxSize ==
    4

---------------------------------------------------------------------------
(* Characters and the Go string functions the parser calls.                *)

UpperChars ==
    <<"A", "B", "C", "D", "E", "F", "G", "H", "I", "J", "K", "L", "M", "N", "O", "P", "Q", "R", "S", "T", "U", "V", "W", "X", "Y", "Z">>
LowerChars ==
    <<"a", "b", "c", "d", "e", "f", "g", "h", "i", "j", "k", "l", "m", "n", "o", "p", "q", "r", "s", "t", "u", "v", "w", "x", "y", "z">>
DigitChars ==
    <<"0", "1", "2", "3", "4", "5", "6", "7", "8", "9">>

\* the newline the parser splits and joins on
NL ==
    "\n"

\* the grave accent U+0060 of a code fence, written as a named character
BQ ==
    "bq"

\* unicode.IsSpace / regexp \s restricted to ASCII
SpaceChars ==
    {" ", "\t", "\n", "\r"}

\* the upper-case letters
UpperSet ==
    {UpperChars[j] : j \in 1..26}

\* unicode.ToLower on the upper-case letters
LowerTable ==
    [c \in UpperSet |-> LowerChars[CHOOSE j \in 1..26 : UpperChars[j] = c]]

\* strings.ToLower on one character
LowerChar(c) ==
    IF c \in UpperSet THEN LowerTable[c] ELSE c

\* strings.ToLower
ToLower(s) ==
    [j \in 1..Len(s) |-> LowerChar(s[j])]

\* strings.Contains
Contains(s, sub) ==
    \E j \in 0..(Len(s) - Len(sub)) : SubSeq(s, j + 1, j + Len(sub)) = sub

\* strings.HasPrefix
HasPrefix(s, p) ==
    Len(s) >= Len(p) /\ SubSeq(s, 1, Len(p)) = p

\* number of consecutive characters of s, from position j on, that are in set
RECURSIVE RunLen(_, _, _)
RunLen(s, j, set) ==
    IF j <= Len(s) /\ s[j] \in set THEN 1 + RunLen(s, j + 1, set) ELSE 0

\* number of consecutive characters of s, from position j backwards, in set
RECURSIVE RunLenBack(_, _, _)
RunLenBack(s, j, set) ==
    IF j >= 1 /\ s[j] \in set THEN 1 + RunLenBack(s, j - 1, set) ELSE 0

\* strings.TrimSpace
TrimSpace(s) ==
    LET a == RunLen(s, 1, SpaceChars)
        b == RunLenBack(s, Len(s), SpaceChars)
    IN  IF a = Len(s) THEN <<>> ELSE SubSeq(s, a + 1, Len(s) - b)

\* strings.Split(s, "\n"): always at least one element
RECURSIVE Split(_)
Split(s) ==
    IF \E j \in 1..Len(s) : s[j] = NL
    THEN LET j == CHOOSE j \in 1..Len(s) :
                     s[j] = NL /\ \A h \in 1..(j - 1) : s[h] # NL
         IN  <<SubSeq(s, 1, j - 1)>> \o Split(SubSeq(s, j + 1, Len(s)))
    ELSE <<s>>

\* decimal digits of a natural number (the %d verb of fmt.Sprintf)
RECURSIVE Itoa(_)
Itoa(n) ==
    IF n < 10 THEN <<DigitChars[n + 1]>>
    ELSE Itoa(n \div 10) \o <<DigitChars[(n % 10) + 1]>>

\* value of a decimal digit string (inverse of Itoa, used to read ids back)
RECURSIVE Atoi(_)
Atoi(s) ==
    IF Len(s) = 0 THEN 0
    ELSE 10 * Atoi(SubSeq(s, 1, Len(s) - 1))
         + (CHOOSE d \in 0..9 : DigitChars[d + 1] = s[Len(s)])

---------------------------------------------------------------------------
(* The regular expressions of NewParser.                                   *)

\* where the capture group (.+) starts when a prefix of h marker characters
\* is followed by \s+ and (.+)$: the greedy \s+ gives back one blank when
\* nothing else is left for (.+); 0 when there is no match
CaptureStart(line, h) ==
    LET w == RunLen(line, h + 1, SpaceChars)
        cs == IF Len(line) - h - w >= 1 THEN h + w + 1 ELSE h + w
    IN  IF h >= 1 /\ w >= 1 /\ (Len(line) - h - w >= 1 \/ w >= 2)
           /\ \A j \in cs..Len(line) : line[j] # NL
        THEN cs ELSE 0

\* headerRegex ^#+\s+(.+)$ : MatchString
HeaderMatch(line) ==
    CaptureStart(line, RunLen(line, 1, {"#"})) > 0

\* headerRegex: FindStringSubmatch(line)[1]
HeaderCapture(line) ==
    SubSeq(line, CaptureStart(line, RunLen(line, 1, {"#"})), Len(line))

\* listRegex ^[\*\-\+]\s+(.+)$ : a match was found
ListMatch(line) ==
    Len(line) >= 1 /\ line[1] \in {"*", "-", "+"} /\ CaptureStart(line, 1) > 0

\* ListCapture taking the whole match, element 0, for the capture group
ListCapture_WholeMatch(line) ==
    line

\* listRegex: FindStringSubmatch(line)[1]
ListCapture(line) ==
    SubSeq(line, CaptureStart(line, 1), Len(line))

---------------------------------------------------------------------------
(* String literals of parser.go, spelled out character by character.       *)

\* keywords of the code-fence classification and of the example headers
kw_good ==
    <<"g", "o", "o", "d">>
kw_correct ==
    <<"c", "o", "r", "r", "e", "c", "t">>
kw_do ==
    <<"d", "o">>
kw_bad ==
    <<"b", "a", "d">>
kw_incorrect ==
    <<"i", "n", "c", "o", "r", "r", "e", "c", "t">>
kw_dont ==
    <<"d", "o", "n", "'", "t">>
kw_example ==
    <<"e", "x", "a", "m", "p", "l", "e">>

\* keywords of inferCategory
kw_type ==
    <<"t", "y", "p", "e">>
kw_interface ==
    <<"i", "n", "t", "e", "r", "f", "a", "c", "e">>
kw_naming ==
    <<"n", "a", "m", "i", "n", "g">>
kw_convention ==
    <<"c", "o", "n", "v", "e", "n", "t", "i", "o", "n">>
kw_function ==
    <<"f", "u", "n", "c", "t", "i", "o", "n">>
kw_method ==
    <<"m", "e", "t", "h", "o", "d">>
kw_import ==
    <<"i", "m", "p", "o", "r", "t">>
kw_export ==
    <<"e", "x", "p", "o", "r", "t">>
kw_error ==
    <<"e", "r", "r", "o", "r">>
kw_exception ==
    <<"e", "x", "c", "e", "p", "t", "i", "o", "n">>
kw_async ==
    <<"a", "s", "y", "n", "c">>
kw_promise ==
    <<"p", "r", "o", "m", "i", "s", "e">>

\* keywords of inferPriority
kw_must ==
    <<"m", "u", "s", "t">>
kw_required ==
    <<"r", "e", "q", "u", "i", "r", "e", "d">>
kw_critical ==
    <<"c", "r", "i", "t", "i", "c", "a", "l">>
kw_should ==
    <<"s", "h", "o", "u", "l", "d">>
kw_recommend ==
    <<"r", "e", "c", "o", "m", "m", "e", "n", "d">>
kw_could ==
    <<"c", "o", "u", "l", "d">>
kw_consider ==
    <<"c", "o", "n", "s", "i", "d", "e", "r">>
kw_style ==
    <<"s", "t", "y", "l", "e">>
kw_formatting ==
    <<"f", "o", "r", "m", "a", "t", "t", "i", "n", "g">>

\* categories and priorities
cat_typing ==
    <<"t", "y", "p", "i", "n", "g">>
cat_naming ==
    <<"n", "a", "m", "i", "n", "g">>
cat_functions ==
    <<"f", "u", "n", "c", "t", "i", "o", "n", "s">>
cat_modules ==
    <<"m", "o", "d", "u", "l", "e", "s">>
cat_error_handling ==
    <<"e", "r", "r", "o", "r", "_", "h", "a", "n", "d", "l", "i", "n", "g">>
cat_async ==
    <<"a", "s", "y", "n", "c">>
cat_general ==
    <<"g", "e", "n", "e", "r", "a", "l">>
prio_high ==
    <<"h", "i", "g", "h">>
prio_medium ==
    <<"m", "e", "d", "i", "u", "m">>
prio_low ==
    <<"l", "o", "w">>

\* other literals
str_guideline_ ==
    <<"g", "u", "i", "d", "e", "l", "i", "n", "e", "_">>
str_CodeExample ==
    <<"C", "o", "d", "e", " ", "E", "x", "a", "m", "p", "l", "e">>
str_version ==
    <<"1", ".", "0", ".", "0">>
str_general ==
    <<"g", "e", "n", "e", "r", "a", "l">>
str_coding_guidelines ==
    <<" ", "c", "o", "d", "i", "n", "g", " ", "g", "u", "i", "d", "e", "l", "i", "n", "e", "s">>
str_fence ==
    <<BQ, BQ, BQ>>
str_minute ==
    <<"2", "0", "2", "6", "-", "0", "1", "-", "0", "1", "T", "0", "0", ":", "0", "0", ":">>

---------------------------------------------------------------------------
(* Inference of category and priority.                                     *)

\* inferCategory with the error keywords tested before the type keywords
inferCategory_ErrorFirst(title) ==
    LET titleLower == ToLower(title)
    IN  IF Contains(titleLower, kw_error) \/ Contains(titleLower, kw_exception)
        THEN cat_error_handling
        ELSE IF Contains(titleLower, kw_type) \/ Contains(titleLower, kw_interface)
        THEN cat_typing
        ELSE IF Contains(titleLower, kw_naming) \/ Contains(titleLower, kw_convention)
        THEN cat_naming
        ELSE IF Contains(titleLower, kw_function) \/ Contains(titleLower, kw_method)
        THEN cat_functions
        ELSE IF Contains(titleLower, kw_import) \/ Contains(titleLower, kw_export)
        THEN cat_modules
        ELSE IF Contains(titleLower, kw_async) \/ Contains(titleLower, kw_promise)
        THEN cat_async
        ELSE cat_general

\* inferCategory: first matching keyword pair wins
inferCategory(title) ==
    LET titleLower == ToLower(title)
    IN  IF Contains(titleLower, kw_type) \/ Contains(titleLower, kw_interface)
        THEN cat_typing
        ELSE IF Contains(titleLower, kw_naming) \/ Contains(titleLower, kw_convention)
        THEN cat_naming
        ELSE IF Contains(titleLower, kw_function) \/ Contains(titleLower, kw_method)
        THEN cat_functions
        ELSE IF Contains(titleLower, kw_import) \/ Contains(titleLower, kw_export)
        THEN cat_modules
        ELSE IF Contains(titleLower, kw_error) \/ Contains(titleLower, kw_exception)
        THEN cat_error_handling
        ELSE IF Contains(titleLower, kw_async) \/ Contains(titleLower, kw_promise)
        THEN cat_async
        ELSE cat_general

\* inferPriority with the low group tested before the medium group
inferPriority_LowFirst(title) ==
    LET titleLower == ToLower(title)
    IN  IF Contains(titleLower, kw_must) \/ Contains(titleLower, kw_required)
           \/ Contains(titleLower, kw_critical) \/ Contains(titleLower, kw_error)
        THEN prio_high
        ELSE IF Contains(titleLower, kw_could) \/ Contains(titleLower, kw_consider)
                \/ Contains(titleLower, kw_style) \/ Contains(titleLower, kw_formatting)
        THEN prio_low
        ELSE IF Contains(titleLower, kw_should) \/ Contains(titleLower, kw_recommend)
        THEN prio_medium
        ELSE prio_medium

\* inferPriority: first matching keyword group wins
inferPriority(title) ==
    LET titleLower == ToLower(title)
    IN  IF Contains(titleLower, kw_must) \/ Contains(titleLower, kw_required)
           \/ Contains(titleLower, kw_critical) \/ Contains(titleLower, kw_error)
        THEN prio_high
        ELSE IF Contains(titleLower, kw_should) \/ Contains(titleLower, kw_recommend)
        THEN prio_medium
        ELSE IF Contains(titleLower, kw_could) \/ Contains(titleLower, kw_consider)
                \/ Contains(titleLower, kw_style) \/ Contains(titleLower, kw_formatting)
        THEN prio_low
        ELSE prio_medium

---------------------------------------------------------------------------
(* splitIntoSections.                                                      *)

\* SplitLoop without the append of the last section after the loop
RECURSIVE SplitLoop_NoFinal(_, _, _, _)
SplitLoop_NoFinal(lns, j, secs, cur) ==
    IF j > Len(lns)
    THEN secs
    ELSE IF HeaderMatch(lns[j]) /\ Len(cur) > 0
         THEN SplitLoop_NoFinal(lns, j + 1, Append(secs, cur), lns[j] \o <<NL>>)
         ELSE SplitLoop_NoFinal(lns, j + 1, secs, cur \o lns[j] \o <<NL>>)

\* SplitLoop closing a section only at a heading outside a fenced block
RECURSIVE SplitLoop_FenceAware(_, _, _, _)
SplitLoop_FenceAware(lns, j, secs, cur) ==
    IF j > Len(lns)
    THEN IF Len(cur) > 0 THEN Append(secs, cur) ELSE secs
    ELSE IF /\ HeaderMatch(lns[j]) /\ Len(cur) > 0
            /\ Cardinality({h \in 1..(j - 1) :
                              HasPrefix(TrimSpace(lns[h]), str_fence)}) % 2 = 0
         THEN SplitLoop_FenceAware(lns, j + 1, Append(secs, cur), lns[j] \o <<NL>>)
         ELSE SplitLoop_FenceAware(lns, j + 1, secs, cur \o lns[j] \o <<NL>>)

\* SplitLoop with "or" for "and" in the test that closes a section
RECURSIVE SplitLoop_Or(_, _, _, _)
SplitLoop_Or(lns, j, secs, cur) ==
    IF j > Len(lns)
    THEN IF Len(cur) > 0 THEN Append(secs, cur) ELSE secs
    ELSE IF HeaderMatch(lns[j]) \/ Len(cur) > 0
         THEN SplitLoop_Or(lns, j + 1, Append(secs, cur), lns[j] \o <<NL>>)
         ELSE SplitLoop_Or(lns, j + 1, secs, cur \o lns[j] \o <<NL>>)

\* the loop of splitIntoSections over lns[j..], with the sections closed so
\* far and the currentSection builder
RECURSIVE SplitLoop(_, _, _, _)
SplitLoop(lns, j, secs, cur) ==
    IF j > Len(lns)
    THEN IF Len(cur) > 0 THEN Append(secs, cur) ELSE secs
    ELSE IF HeaderMatch(lns[j]) /\ Len(cur) > 0
         THEN SplitLoop(lns, j + 1, Append(secs, cur), lns[j] \o <<NL>>)
         ELSE SplitLoop(lns, j + 1, secs, cur \o lns[j] \o <<NL>>)

\* splitIntoSections
splitIntoSections(text) ==
    SplitLoop(Split(text), 1, <<>>, <<>>)

---------------------------------------------------------------------------
(* Values of the Go types.                                                 *)

\* the nil *types.GuidelineExample
NilExample ==
    [isNil |-> TRUE, Title |-> <<>>, Good |-> <<>>, Bad |-> <<>>,
     Explanation |-> <<>>]

\* &types.GuidelineExample{Title: title}
NewExample(title) ==
    [isNil |-> FALSE, Title |-> title, Good |-> <<>>, Bad |-> <<>>,
     Explanation |-> <<>>]

\* the value of currentExample, as appended to guideline.Examples
Deref(e) ==
    [Title |-> e.Title, Good |-> e.Good, Bad |-> e.Bad,
     Explanation |-> e.Explanation]

\* the nil *types.Guideline
NilGuideline ==
    [isNil |-> TRUE, ID |-> <<>>, Title |-> <<>>, Description |-> <<>>,
     Category |-> <<>>, Priority |-> <<>>, Examples |-> <<>>, Rules |-> <<>>]

\* GuidelineID called with the 0-based loop index
GuidelineID_ZeroBased(id) ==
    str_guideline_ \o Itoa(id - 1)

\* fmt.Sprintf("guideline_%d", id)
GuidelineID(id) ==
    str_guideline_ \o Itoa(id)

\* &types.Guideline{ID: ..., Priority: "medium"}
NewGuideline(id) ==
    [isNil |-> FALSE, ID |-> GuidelineID(id), Title |-> <<>>,
     Description |-> <<>>, Category |-> <<>>, Priority |-> prio_medium,
     Examples |-> <<>>, Rules |-> <<>>]

\* the value of guideline, as appended to the guidelines slice
DerefGuideline(g) ==
    [ID |-> g.ID, Title |-> g.Title, Description |-> g.Description,
     Category |-> g.Category, Priority |-> g.Priority,
     Examples |-> g.Examples, Rules |-> g.Rules]

\* the GuidelineSet before ParseGuidelines has built one
NoSet ==
    [Name |-> <<>>, Version |-> <<>>, Description |-> <<>>,
     LoadedAt |-> <<>>, Guidelines |-> <<>>]

\* the nil *types.GuidelineSet; the addresses of the sets are 1, 2, ...
NilSet ==
    0

\* make(map[string]*types.GuidelineSet): the empty map
EmptyMap ==
    [n \in {} |-> NilSet]

\* no error to wrap
NoCause ==
    [Op |-> <<>>, Path |-> <<>>, Err |-> <<>>]

\* a nil error
NoError ==
    [msg |-> <<>>, cause |-> NoCause]

\* no handler called yet
NoRequest ==
    [tool |-> "none", path |-> <<>>, kind |-> <<>>, code |-> <<>>]

\* no result returned yet
NoResponse ==
    [Text |-> <<>>, success |-> FALSE, guideline_set |-> NilSet,
     warnings |-> <<>>, message |-> <<>>, Improvements |-> <<>>,
     AppliedRules |-> <<>>]

\* the Handlers before NewHandlers: no *tools.TypeScriptCompiler
NilCompiler ==
    [isNil |-> TRUE, tscPath |-> <<>>]

\* no goroutine is waiting
NoFrame ==
    [pc |-> "none"]

\* two decimal digits
TwoDigits(n) ==
    IF n < 10 THEN <<"0">> \o Itoa(n) ELSE Itoa(n)

\* time.Format(time.RFC3339) of an instant of the first minute of
\* 2026-01-01 UTC
FormatRFC3339(t) ==
    str_minute \o TwoDigits(t) \o <<"Z">>

---------------------------------------------------------------------------
(* The inputs.                                                             *)

\* lines the documents are made of; the exhaustive family uses Vocab
L_empty ==
    <<>>
L_heading ==
    <<"#", " ", "N", "a", "m", "i", "n", "g">>
L_indented ==
    <<" ", "#", " ", "T">>
L_fence ==
    <<BQ, BQ, BQ>>
L_text ==
    <<"x">>
L_list ==
    <<"-", " ", "n", "o", "-", "a", "n", "y">>
L_good ==
    <<"G", "o", "o", "d", " ", "E", "x", "a", "m", "p", "l", "e">>
L_bad ==
    <<"B", "a", "d", " ", "E", "x", "a", "m", "p", "l", "e">>

\* lines of the sample documents
D_Naming ==
    <<"#", "#", " ", "N", "a", "m", "i", "n", "g">>
D_BadHeading ==
    <<"#", "#", "#", " ", "B", "a", "d", " ", "E", "x", "a", "m", "p", "l", "e">>
D_GoodHeading ==
    <<"#", "#", "#", " ", "G", "o", "o", "d", " ", "E", "x", "a", "m", "p", "l", "e">>
D_badcode ==
    <<"b", "a", "d", " ", "c", "o", "d", "e">>
D_goodcode ==
    <<"g", "o", "o", "d", " ", "c", "o", "d", "e">>
D_badfence ==
    <<BQ, BQ, BQ, "b", "a", "d", " ", "c", "o", "d", "e", BQ, BQ, BQ>>
D_goodfence ==
    <<BQ, BQ, BQ, "g", "o", "o", "d", " ", "c", "o", "d", "e", BQ, BQ, BQ>>
D_dont ==
    <<"D", "o", "n", "'", "t", " ", "e", "x", "a", "m", "p", "l", "e">>
D_incorrect ==
    <<"I", "n", "c", "o", "r", "r", "e", "c", "t", " ", "e", "x", "a", "m", "p", "l", "e">>
D_MustFix ==
    <<"#", " ", "M", "u", "s", "t", " ", "F", "i", "x", " ", "T", "h", "i", "s">>

\* set names and kind labels passed to ParseGuidelines
N_file ==
    <<"g", ".", "m", "d">>
K_team ==
    <<"t", "e", "a", "m">>

Vocab ==
    {L_empty, L_heading, L_fence, L_text, L_list, L_good}

\* strings.Join(ls, "\n"): the text whose lines are ls
RECURSIVE Join(_)
Join(ls) ==
    IF Len(ls) = 0 THEN <<>>
    ELSE IF Len(ls) = 1 THEN ls[1]
    ELSE ls[1] \o <<NL>> \o Join(Tail(ls))

\* the document of the parser's specification, fences on one line
NamingDocInline ==
    Join(<<D_Naming, D_BadHeading, D_badfence, D_GoodHeading, D_goodfence>>)

\* the same document with each fence on lines of its own, as in the
\* repository's sample-guidelines.md and README
NamingDoc ==
    Join(<<D_Naming, D_BadHeading, L_fence, D_badcode, L_fence,
           D_GoodHeading, L_fence, D_goodcode, L_fence>>)

\* two examples labelled by plain lines
LabelDoc ==
    Join(<<L_heading, L_good, L_fence, D_goodcode, L_fence,
           L_bad, L_fence, D_badcode, L_fence>>)

\* a section with a second, indented heading: not a heading for the
\* splitter, a heading for the extractor, which trims the line first
IndentedDoc ==
    Join(<<L_heading, L_text, L_indented, L_text>>)

\* an example labelled "don't"
DontDoc ==
    Join(<<D_dont, L_fence, D_badcode, L_fence>>)

\* an example labelled "incorrect"
IncorrectDoc ==
    Join(<<D_incorrect, L_fence, D_badcode, L_fence>>)

\* a section that is a single heading
MustFixDoc ==
    D_MustFix

\* words of the titles: every keyword of inferCategory and inferPriority,
\* in lower, upper or mixed case, and a word that is no keyword
W_Type ==
    <<"T", "y", "p", "e">>
W_interface ==
    <<"i", "n", "t", "e", "r", "f", "a", "c", "e">>
W_Naming ==
    <<"N", "a", "m", "i", "n", "g">>
W_convention ==
    <<"c", "o", "n", "v", "e", "n", "t", "i", "o", "n">>
W_function ==
    <<"f", "u", "n", "c", "t", "i", "o", "n">>
W_METHOD ==
    <<"M", "E", "T", "H", "O", "D">>
W_import ==
    <<"i", "m", "p", "o", "r", "t">>
W_Export ==
    <<"E", "x", "p", "o", "r", "t">>
W_Error ==
    <<"E", "r", "r", "o", "r">>
W_exception ==
    <<"e", "x", "c", "e", "p", "t", "i", "o", "n">>
W_async ==
    <<"a", "s", "y", "n", "c">>
W_Promise ==
    <<"P", "r", "o", "m", "i", "s", "e">>
W_Must ==
    <<"M", "u", "s", "t">>
W_required ==
    <<"r", "e", "q", "u", "i", "r", "e", "d">>
W_CRITICAL ==
    <<"C", "R", "I", "T", "I", "C", "A", "L">>
W_should ==
    <<"s", "h", "o", "u", "l", "d">>
W_Recommend ==
    <<"R", "e", "c", "o", "m", "m", "e", "n", "d">>
W_could ==
    <<"c", "o", "u", "l", "d">>
W_consider ==
    <<"c", "o", "n", "s", "i", "d", "e", "r">>
W_Style ==
    <<"S", "t", "y", "l", "e">>
W_formatting ==
    <<"f", "o", "r", "m", "a", "t", "t", "i", "n", "g">>
W_Fix ==
    <<"F", "i", "x">>

TitleWords ==
    {W_Type, W_interface, W_Naming, W_convention, W_function,
     W_METHOD, W_import, W_Export, W_Error, W_exception,
     W_async, W_Promise, W_Must, W_required, W_CRITICAL,
     W_should, W_Recommend, W_could, W_consider, W_Style,
     W_formatting, W_Fix}

\* titles of one word or of two words
Titles ==
    TitleWords \cup {a \o <<" ">> \o b : a, b \in TitleWords}

\* documents that are one heading line
TitleDocs ==
    {<<"#", " ">> \o ti : ti \in Titles}

\* lines of the document with rules
D_Rules ==
    <<"#", "#", " ", "R", "u", "l", "e", "s">>
D_noany ==
    <<"-", " ", "n", "o", "-", "a", "n", "y">>
D_preferconst ==
    <<"-", " ", "p", "r", "e", "f", "e", "r", "-", "c", "o", "n", "s", "t">>
D_goodrule ==
    <<"*", " ", " ", "G", "o", "o", "d", " ", "e", "x", "a", "m", "p", "l", "e", ",", " ", "b", "a", "d", " ", "o", "n", "e">>

\* a section whose list lines are the two rules
TwoRulesDoc ==
    Join(<<D_Rules, D_noany, D_preferconst>>)

\* a section with list lines, one of them with the words of an example
\* header
RulesDoc ==
    Join(<<D_Rules, L_text, D_noany, D_preferconst, L_good, D_goodrule>>)

\* a code block with a comment line of a script, indented, in an example
CommentDoc ==
    Join(<<L_heading, L_good, L_fence, L_indented, D_goodcode, L_fence>>)

\* a code block with such a comment line and no heading before it
FenceFirstDoc ==
    Join(<<L_fence, L_indented, L_text, L_fence>>)

\* a closed code block of an example, then a fence that is never closed,
\* followed by lines of every kind
UnclosedAfterDoc ==
    Join(<<L_heading, L_good, L_fence, D_goodcode, L_fence, L_fence,
           D_badcode, L_list, L_bad, L_text>>)

SampleDocs ==
    {NamingDocInline, NamingDoc, LabelDoc, IndentedDoc, DontDoc, IncorrectDoc,
     MustFixDoc, TwoRulesDoc, RulesDoc, CommentDoc, FenceFirstDoc,
     UnclosedAfterDoc}

\* every text of at most m lines over Vocab: the empty text and texts with
\* or without a final newline are among them
Docs(m) ==
    {Join(ls) : ls \in UNION {[1..h -> Vocab] : h \in 1..m}}

Names ==
    {<<>>, N_file}

Kinds ==
    {<<>>, K_team}

\* clock readings, in seconds after 2026-01-01T00:00:00Z
Instants ==
    {0, 7}

\* how many of the arguments other than the document differ from the first
\* value of their set
Extras(n, k, t) ==
    (IF n = <<>> THEN 0 ELSE 1) + (IF k = <<>> THEN 0 ELSE 1)
    + (IF t = 0 THEN 0 ELSE 1)

\* the inputs of the calls: all of size at most MaxSize, the sample
\* documents with every name, kind and clock reading, and the one-heading
\* documents
Inputs ==
    {<<c, n, k, t>> : c \in SampleDocs, n \in Names, k \in Kinds, t \in Instants}
    \cup {<<c, <<>>, <<>>, 0>> : c \in TitleDocs}
    \cup UNION {{<<c, n, k, t>> : c \in Docs(MaxSize - Extras(n, k, t))}
                : <<n, k, t>> \in Names \X Kinds \X Instants}

---------------------------------------------------------------------------
(* The call ParseGuidelines(content, name, guidelineType).                 *)

\* an analyzer as NewAnalyzer returns it, no request handled, no other call
OuterInit ==
    /\ heap = <<>>
    /\ registry = EmptyMap
    /\ loads = <<>>
    /\ request = NoRequest
    /\ response = NoResponse
    /\ warnings = <<>>
    /\ calls = <<>>
    /\ loadErr = NoError
    /\ first = NoSet
    /\ other = NoFrame
    /\ tscTool = NilCompiler
    /\ commands = <<>>
    /\ loader = NoFrame
    /\ reader = NoFrame

Init ==
    /\ \E in \in Inputs :
          /\ content = in[1]
          /\ name = in[2]
          /\ guidelineType = in[3]
          /\ now = in[4]
    /\ OuterInit
    /\ pc = "call"
    /\ guidelineSet = NoSet
    /\ err = "unset"
    /\ sections = <<>>
    /\ secIdx = 0
    /\ guidelines = <<>>
    /\ lines = <<>>
    /\ lineIdx = 0
    /\ guideline = NilGuideline
    /\ currentContent = <<>>
    /\ inCodeBlock = FALSE
    /\ currentExample = NilExample
    /\ lastKind = "none"

\* SetDescription without the default kind
SetDescription_NoDefault(kind) ==
    kind \o str_coding_guidelines

\* fmt.Sprintf("%s coding guidelines", guidelineType) after the default
SetDescription(kind) ==
    (IF kind = <<>> THEN str_general ELSE kind) \o str_coding_guidelines

\* ParseGuidelines_Enter with the slice of parseContent kept from the call
\* before, as if it were a field of the Parser
ParseGuidelines_Enter_KeepSlice ==
    /\ pc = "call"
    /\ guidelineSet' = [Name |-> name, Version |-> str_version,
                        Description |-> SetDescription(guidelineType),
                        LoadedAt |-> FormatRFC3339(now),
                        Guidelines |-> <<>>]
    /\ sections' = splitIntoSections(content)
    /\ secIdx' = 0
    /\ pc' = "loop"
    /\ UNCHANGED <<outer, content, name, guidelineType, now, err, guidelines,
                   lines, lineIdx, guideline, currentContent, inCodeBlock,
                   currentExample, lastKind>>

\* ParseGuidelines up to and including the call of splitIntoSections
ParseGuidelines_Enter ==
    /\ pc = "call"
    /\ guidelineSet' = [Name |-> name, Version |-> str_version,
                        Description |-> SetDescription(guidelineType),
                        LoadedAt |-> FormatRFC3339(now),
                        Guidelines |-> <<>>]
    /\ sections' = splitIntoSections(content)
    /\ secIdx' = 0
    /\ guidelines' = <<>>
    /\ pc' = "loop"
    /\ UNCHANGED <<outer, content, name, guidelineType, now, err, lines, lineIdx,
                   guideline, currentContent, inCodeBlock, currentExample,
                   lastKind>>

\* ParseSection_Begin with the code block flag kept from the section before,
\* as if it were a field of the Parser
ParseSection_Begin_KeepCodeBlock ==
    /\ pc = "loop"
    /\ secIdx < Len(sections)
    /\ lines' = Split(sections[secIdx + 1])
    /\ lineIdx' = 0
    /\ IF Len(lines') = 0
       THEN guideline' = NilGuideline /\ pc' = "collect"
       ELSE guideline' = NewGuideline(secIdx + 1) /\ pc' = "scan"
    /\ currentContent' = <<>>
    /\ inCodeBlock' = inCodeBlock
    /\ currentExample' = NilExample
    /\ lastKind' = "none"
    /\ UNCHANGED <<outer, content, name, guidelineType, now, guidelineSet, err, sections,
                   secIdx, guidelines>>

\* ParseSection_Begin returning nil for a section that holds no text
ParseSection_Begin_SkipBlank ==
    /\ pc = "loop"
    /\ secIdx < Len(sections)
    /\ lines' = Split(sections[secIdx + 1])
    /\ lineIdx' = 0
    /\ IF TrimSpace(sections[secIdx + 1]) = <<>>
       THEN guideline' = NilGuideline /\ pc' = "collect"
       ELSE guideline' = NewGuideline(secIdx + 1) /\ pc' = "scan"
    /\ currentContent' = <<>>
    /\ inCodeBlock' = FALSE
    /\ currentExample' = NilExample
    /\ lastKind' = "none"
    /\ UNCHANGED <<outer, content, name, guidelineType, now, guidelineSet, err, sections,
                   secIdx, guidelines>>

\* parseContent calls parseSection(section, i+1): prologue of parseSection
ParseSection_Begin ==
    /\ pc = "loop"
    /\ secIdx < Len(sections)
    /\ lines' = Split(sections[secIdx + 1])
    /\ lineIdx' = 0
    /\ IF Len(lines') = 0
       THEN guideline' = NilGuideline /\ pc' = "collect"
       ELSE guideline' = NewGuideline(secIdx + 1) /\ pc' = "scan"
    /\ currentContent' = <<>>
    /\ inCodeBlock' = FALSE
    /\ currentExample' = NilExample
    /\ lastKind' = "none"
    /\ UNCHANGED <<outer, content, name, guidelineType, now, guidelineSet, err, sections,
                   secIdx, guidelines>>

\* the line the scan loop of parseSection looks at, trimmed
CurLine ==
    TrimSpace(lines[lineIdx + 1])

\* which branch of the scan loop a trimmed line takes
LineKind(line, inCode) ==
    IF HeaderMatch(line) THEN "header"
    ELSE IF HasPrefix(line, str_fence) THEN "fence"
    ELSE IF inCode THEN "code"
    ELSE IF ListMatch(line) THEN "list"
    ELSE IF Contains(ToLower(line), kw_example)
            \/ Contains(ToLower(line), kw_good)
            \/ Contains(ToLower(line), kw_bad) THEN "example"
    ELSE "text"

Scanning(kind) ==
    /\ pc = "scan"
    /\ lineIdx < Len(lines)
    /\ LineKind(CurLine, inCodeBlock) = kind
    /\ lineIdx' = lineIdx + 1
    /\ lastKind' = kind
    /\ pc' = "scan"
    /\ UNCHANGED <<outer, content, name, guidelineType, now, guidelineSet, err, sections,
                   secIdx, guidelines, lines>>

\* ScanHeader with every heading line setting the metadata
ScanHeader_EveryHeading ==
    /\ Scanning("header")
    /\ guideline' =
         [guideline EXCEPT !.Title = HeaderCapture(CurLine),
                           !.Category = inferCategory(HeaderCapture(CurLine)),
                           !.Priority = inferPriority(HeaderCapture(CurLine))]
    /\ UNCHANGED <<currentContent, inCodeBlock, currentExample>>

\* a heading line: only the first one of a section sets the metadata
ScanHeader ==
    /\ Scanning("header")
    /\ guideline' =
         IF guideline.Title = <<>>
         THEN [guideline EXCEPT !.Title = HeaderCapture(CurLine),
                                !.Category = inferCategory(HeaderCapture(CurLine)),
                                !.Priority = inferPriority(HeaderCapture(CurLine))]
         ELSE guideline
    /\ UNCHANGED <<currentContent, inCodeBlock, currentExample>>

\* the title of the current example has one of the "good" keywords
IsGoodTitle(title) ==
    \/ Contains(ToLower(title), kw_good)
    \/ Contains(ToLower(title), kw_correct)
    \/ Contains(ToLower(title), kw_do)

\* the title of the current example has one of the "bad" keywords
IsBadTitle(title) ==
    \/ Contains(ToLower(title), kw_bad)
    \/ Contains(ToLower(title), kw_incorrect)
    \/ Contains(ToLower(title), kw_dont)

\* CloseBlock with the fields Good and Bad exchanged
CloseBlock_Swapped(ex, code) ==
    IF ex.isNil THEN ex
    ELSE IF IsGoodTitle(ex.Title) THEN [ex EXCEPT !.Bad = TrimSpace(code)]
    ELSE IF IsBadTitle(ex.Title) THEN [ex EXCEPT !.Good = TrimSpace(code)]
    ELSE ex

\* the example after a code block with the given content was closed
CloseBlock(ex, code) ==
    IF ex.isNil THEN ex
    ELSE IF IsGoodTitle(ex.Title) THEN [ex EXCEPT !.Good = TrimSpace(code)]
    ELSE IF IsBadTitle(ex.Title) THEN [ex EXCEPT !.Bad = TrimSpace(code)]
    ELSE ex

\* a line starting with three backticks: closes or opens a code block
ScanFence ==
    /\ Scanning("fence")
    /\ IF inCodeBlock
       THEN /\ currentExample' = CloseBlock(currentExample, currentContent)
            /\ currentContent' = <<>>
            /\ inCodeBlock' = FALSE
       ELSE /\ inCodeBlock' = TRUE
            /\ currentExample' = IF currentExample.isNil
                                 THEN NewExample(str_CodeExample)
                                 ELSE currentExample
            /\ currentContent' = currentContent
    /\ UNCHANGED guideline

\* a line inside a code block
ScanCode ==
    /\ Scanning("code")
    /\ currentContent' = currentContent \o CurLine \o <<NL>>
    /\ UNCHANGED <<guideline, inCodeBlock, currentExample>>

\* a list item: a rule
ScanList ==
    /\ Scanning("list")
    /\ guideline' = [guideline EXCEPT
                       !.Rules = Append(@, TrimSpace(ListCapture(CurLine)))]
    /\ UNCHANGED <<currentContent, inCodeBlock, currentExample>>

\* Flushable without the test of Good and Bad
Flushable_AnyExample(ex) ==
    ~ex.isNil

\* the example is complete enough to be kept
Flushable(ex) ==
    ~ex.isNil /\ (ex.Good # <<>> \/ ex.Bad # <<>>)

\* guideline.Examples after the flush of the current example, if it is kept
Flush(g, ex) ==
    IF Flushable(ex) THEN [g EXCEPT !.Examples = Append(@, Deref(ex))] ELSE g

\* ScanExampleHeader with the new example taking over the explanation of
\* the one it replaces
ScanExampleHeader_CarryExplanation ==
    /\ Scanning("example")
    /\ guideline' = Flush(guideline, currentExample)
    /\ currentExample' = [NewExample(CurLine) EXCEPT
                             !.Explanation = currentExample.Explanation]
    /\ UNCHANGED <<currentContent, inCodeBlock>>

\* an example header: flushes the current example and starts a new one
ScanExampleHeader ==
    /\ Scanning("example")
    /\ guideline' = Flush(guideline, currentExample)
    /\ currentExample' = NewExample(CurLine)
    /\ UNCHANGED <<currentContent, inCodeBlock>>

\* ScanText with the explanation of the current example served before the
\* description
ScanText_ExplanationFirst ==
    /\ Scanning("text")
    /\ IF CurLine # <<>> /\ ~currentExample.isNil
          /\ currentExample.Explanation = <<>>
       THEN /\ currentExample' = [currentExample EXCEPT !.Explanation = CurLine]
            /\ guideline' = guideline
       ELSE IF CurLine # <<>> /\ guideline.Description = <<>>
       THEN /\ guideline' = [guideline EXCEPT !.Description = CurLine]
            /\ currentExample' = currentExample
       ELSE UNCHANGED <<guideline, currentExample>>
    /\ UNCHANGED <<currentContent, inCodeBlock>>

\* any other line: description, then explanation of the current example
ScanText ==
    /\ Scanning("text")
    /\ IF CurLine # <<>> /\ guideline.Description = <<>>
       THEN /\ guideline' = [guideline EXCEPT !.Description = CurLine]
            /\ currentExample' = currentExample
       ELSE IF CurLine # <<>> /\ ~currentExample.isNil
               /\ currentExample.Explanation = <<>>
       THEN /\ currentExample' = [currentExample EXCEPT !.Explanation = CurLine]
            /\ guideline' = guideline
       ELSE UNCHANGED <<guideline, currentExample>>
    /\ UNCHANGED <<currentContent, inCodeBlock>>

\* the guideline parseSection returns after the loop
Finish(g, ex) ==
    LET f == Flush(g, ex)
    IN  IF f.Description = <<>> /\ f.Title # <<>>
        THEN [f EXCEPT !.Description = f.Title]
        ELSE f

\* ParseSection_End putting the guideline in front of the slice
ParseSection_End_Prepend ==
    /\ pc = "scan" /\ lineIdx = Len(lines)
    /\ guideline' = Finish(guideline, currentExample)
    /\ guidelines' = <<DerefGuideline(guideline')>> \o guidelines
    /\ secIdx' = secIdx + 1
    /\ pc' = "loop"
    /\ UNCHANGED <<outer, content, name, guidelineType, now, guidelineSet, err,
                   sections, lines, lineIdx, currentContent, inCodeBlock,
                   currentExample, lastKind>>

\* end of parseSection and the append of parseContent's loop body
ParseSection_End ==
    /\ \/ pc = "scan" /\ lineIdx = Len(lines)
          /\ guideline' = Finish(guideline, currentExample)
       \/ pc = "collect" /\ guideline' = guideline
    /\ guidelines' = IF guideline'.isNil THEN guidelines
                     ELSE Append(guidelines, DerefGuideline(guideline'))
    /\ secIdx' = secIdx + 1
    /\ pc' = "loop"
    /\ UNCHANGED <<outer, content, name, guidelineType, now, guidelineSet, err, sections,
                   lines, lineIdx, currentContent, inCodeBlock, currentExample,
                   lastKind>>

\* parseContent returns; ParseGuidelines stores the slice and returns nil
ParseGuidelines_Return ==
    /\ pc = "loop"
    /\ secIdx >= Len(sections)
    /\ guidelineSet' = [guidelineSet EXCEPT !.Guidelines = guidelines]
    /\ err' = "nil"
    /\ pc' = "done"
    /\ UNCHANGED <<outer, content, name, guidelineType, now, sections, secIdx, guidelines,
                   lines, lineIdx, guideline, currentContent, inCodeBlock,
                   currentExample, lastKind>>

Next ==
    \/ ParseGuidelines_Enter
    \/ ParseSection_Begin
    \/ ScanHeader
    \/ ScanFence
    \/ ScanCode
    \/ ScanList
    \/ ScanExampleHeader
    \/ ScanText
    \/ ParseSection_End
    \/ ParseGuidelines_Return

Spec ==
    Init /\ [][Next]_vars

---------------------------------------------------------------------------
(* The same call as functions of its arguments, for the callers of the     *)
(* parser.                                                                 *)

\* the locals of parseSection before the scan loop
ScanStart(id) ==
    [guideline |-> NewGuideline(id), currentContent |-> <<>>,
     inCodeBlock |-> FALSE, currentExample |-> NilExample]

\* one iteration of the scan loop of parseSection on the raw line
ScanLine(st, raw) ==
    LET line == TrimSpace(raw)
        kind == LineKind(line, st.inCodeBlock)
        g == st.guideline
        ex == st.currentExample
    IN  CASE kind = "header" ->
               IF g.Title = <<>>
               THEN [st EXCEPT !.guideline =
                        [g EXCEPT !.Title = HeaderCapture(line),
                                  !.Category = inferCategory(HeaderCapture(line)),
                                  !.Priority = inferPriority(HeaderCapture(line))]]
               ELSE st
          [] kind = "fence" ->
               IF st.inCodeBlock
               THEN [st EXCEPT !.currentExample = CloseBlock(ex, st.currentContent),
                               !.currentContent = <<>>,
                               !.inCodeBlock = FALSE]
               ELSE [st EXCEPT !.inCodeBlock = TRUE,
                               !.currentExample =
                                   IF ex.isNil THEN NewExample(str_CodeExample)
                                   ELSE ex]
          [] kind = "code" ->
               [st EXCEPT !.currentContent = @ \o line \o <<NL>>]
          [] kind = "list" ->
               [st EXCEPT !.guideline =
                   [g EXCEPT !.Rules = Append(@, TrimSpace(ListCapture(line)))]]
          [] kind = "example" ->
               [st EXCEPT !.guideline = Flush(g, ex),
                          !.currentExample = NewExample(line)]
          [] OTHER ->
               IF line # <<>> /\ g.Description = <<>>
               THEN [st EXCEPT !.guideline = [g EXCEPT !.Description = line]]
               ELSE IF line # <<>> /\ ~ex.isNil /\ ex.Explanation = <<>>
               THEN [st EXCEPT !.currentExample = [ex EXCEPT !.Explanation = line]]
               ELSE st

\* the scan loop of parseSection from line j on
RECURSIVE ScanLoop(_, _, _)
ScanLoop(lns, j, st) ==
    IF j > Len(lns) THEN st
    ELSE ScanLoop(lns, j + 1, ScanLine(st, lns[j]))

\* parseSection(section, id)
parseSection(section, id) ==
    LET lns == Split(section)
    IN  IF Len(lns) = 0 THEN NilGuideline
        ELSE LET st == ScanLoop(lns, 1, ScanStart(id))
             IN  Finish(st.guideline, st.currentExample)

\* the loop of parseContent over the sections, i being the 0-based index
RECURSIVE ParseLoop(_, _, _)
ParseLoop(secs, i, acc) ==
    IF i >= Len(secs) THEN acc
    ELSE LET g == parseSection(secs[i + 1], i + 1)
         IN  ParseLoop(secs, i + 1,
                       IF g.isNil THEN acc ELSE Append(acc, DerefGuideline(g)))

\* parseContent(content)
parseContent(text) ==
    ParseLoop(splitIntoSections(text), 0, <<>>)

\* ParseGuidelines(content, name, guidelineType) when time.Now() returns t
ParseGuidelines(text, nm, kind, t) ==
    [Name |-> nm, Version |-> str_version,
     Description |-> SetDescription(kind),
     LoadedAt |-> FormatRFC3339(t),
     Guidelines |-> parseContent(text)]

---------------------------------------------------------------------------
(* ValidateGuidelines.                                                     *)

str_name_is_empty ==
    <<"G", "u", "i", "d", "e", "l", "i", "n", "e", " ", "s", "e", "t", " ",
      "n", "a", "m", "e", " ", "i", "s", " ", "e", "m", "p", "t", "y">>
str_no_guidelines ==
    <<"N", "o", " ", "g", "u", "i", "d", "e", "l", "i", "n", "e", "s", " ",
      "f", "o", "u", "n", "d", " ", "i", "n", " ", "t", "h", "e", " ", "s",
      "e", "t">>
str_Guideline ==
    <<"G", "u", "i", "d", "e", "l", "i", "n", "e", " ">>
str_has_no_title ==
    <<" ", "h", "a", "s", " ", "n", "o", " ", "t", "i", "t", "l", "e">>
str_has_no_description ==
    <<" ", "h", "a", "s", " ", "n", "o", " ", "d", "e", "s", "c", "r", "i",
      "p", "t", "i", "o", "n">>
str_has_no_rules ==
    <<" ", "h", "a", "s", " ", "n", "o", " ", "r", "u", "l", "e", "s", " ",
      "o", "r", " ", "e", "x", "a", "m", "p", "l", "e", "s">>

\* fmt.Sprintf("Guideline %d has no title", n)
NoTitleWarning(n) ==
    str_Guideline \o Itoa(n) \o str_has_no_title

\* fmt.Sprintf("Guideline %d (%s) has no description", n, title)
NoDescriptionWarning(n, title) ==
    str_Guideline \o Itoa(n) \o <<" ", "(">> \o title \o <<")">>
    \o str_has_no_description

\* fmt.Sprintf("Guideline %d (%s) has no rules or examples", n, title)
NoRulesWarning(n, title) ==
    str_Guideline \o Itoa(n) \o <<" ", "(">> \o title \o <<")">>
    \o str_has_no_rules

\* GuidelineWarnings with the description tested before the title
GuidelineWarnings_DescriptionFirst(g, n) ==
    (IF g.Description = <<>>
     THEN <<NoDescriptionWarning(n, g.Title)>> ELSE <<>>)
    \o (IF g.Title = <<>> THEN <<NoTitleWarning(n)>> ELSE <<>>)
    \o (IF Len(g.Rules) = 0 /\ Len(g.Examples) = 0
        THEN <<NoRulesWarning(n, g.Title)>> ELSE <<>>)

\* the warnings the loop body appends for the guideline at position n = i+1
GuidelineWarnings(g, n) ==
    (IF g.Title = <<>> THEN <<NoTitleWarning(n)>> ELSE <<>>)
    \o (IF g.Description = <<>>
        THEN <<NoDescriptionWarning(n, g.Title)>> ELSE <<>>)
    \o (IF Len(g.Rules) = 0 /\ Len(g.Examples) = 0
        THEN <<NoRulesWarning(n, g.Title)>> ELSE <<>>)

\* the loop of ValidateGuidelines, i being the 0-based index
RECURSIVE ValidateLoop(_, _, _)
ValidateLoop(gs, i, w) ==
    IF i >= Len(gs) THEN w
    ELSE ValidateLoop(gs, i + 1, w \o GuidelineWarnings(gs[i + 1], i + 1))

\* ValidateGuidelines(guidelineSet)
ValidateGuidelines(set) ==
    ValidateLoop(set.Guidelines, 0,
                 (IF set.Name = <<>> THEN <<str_name_is_empty>> ELSE <<>>)
                 \o (IF Len(set.Guidelines) = 0
                     THEN <<str_no_guidelines>> ELSE <<>>))

---------------------------------------------------------------------------
(* Calls of ValidateGuidelines on guideline sets of every shape.           *)

\* number of guidelines of the largest set given to the validator
MaxGuidelines ==
    2

\* a title, a description, a rule and an example of the sets
V_title ==
    <<"T">>
V_description ==
    <<"d">>
V_rule ==
    <<"r">>
V_example ==
    [Title |-> <<"e">>, Good |-> <<"g">>, Bad |-> <<>>, Explanation |-> <<>>]

\* guidelines with and without title, description, rules and examples; the
\* id is not the position in the set
ValidatorGuidelines ==
    {[ID |-> GuidelineID(7), Title |-> ti, Description |-> de,
      Category |-> cat_general, Priority |-> prio_medium,
      Examples |-> ex, Rules |-> ru] :
        ti \in {<<>>, V_title}, de \in {<<>>, V_description},
        ex \in {<<>>, <<V_example>>}, ru \in {<<>>, <<V_rule>>}}

\* the sets given to the validator
ValidatorSets ==
    {[Name |-> nm, Version |-> str_version,
      Description |-> SetDescription(<<>>), LoadedAt |-> FormatRFC3339(0),
      Guidelines |-> gs] :
        nm \in Names,
        gs \in UNION {[1..h -> ValidatorGuidelines] : h \in 0..MaxGuidelines}}

\* the locals of a call of ParseGuidelines that was not made
NoCall ==
    /\ content = <<>>
    /\ name = <<>>
    /\ guidelineType = <<>>
    /\ now = 0
    /\ err = "unset"
    /\ sections = <<>>
    /\ secIdx = 0
    /\ guidelines = <<>>
    /\ lines = <<>>
    /\ lineIdx = 0
    /\ guideline = NilGuideline
    /\ currentContent = <<>>
    /\ inCodeBlock = FALSE
    /\ currentExample = NilExample
    /\ lastKind = "none"

InitValidate ==
    /\ guidelineSet \in ValidatorSets
    /\ pc = "validate"
    /\ NoCall
    /\ OuterInit

\* warnings := p.ValidateGuidelines(guidelineSet)
Validate ==
    /\ pc = "validate"
    /\ warnings' = ValidateGuidelines(guidelineSet)
    /\ pc' = "validated"
    /\ UNCHANGED <<content, name, guidelineType, now, guidelineSet, err,
                   sections, secIdx, guidelines, lines, lineIdx, guideline,
                   currentContent, inCodeBlock, currentExample, lastKind,
                   heap, registry, loads, request, response, calls, loadErr,
                   first, other, tools, goroutines>>

NextValidate ==
    Validate

SpecValidate ==
    InitValidate /\ [][NextValidate]_vars

---------------------------------------------------------------------------
(* The file system the server reads the guideline documents from.          *)

\* paths given to the handler
P_a ==
    <<"a", "/", "g", ".", "m", "d">>
P_b ==
    <<"b", "/", "g", ".", "m", "d">>
P_h ==
    <<"h", ".", "m", "d">>
P_e ==
    <<"e", ".", "m", "d">>
P_missing ==
    <<"d", "o", "c", "s", "/", "m", "i", "s", "s", "i", "n", "g", ".", "m",
      "d">>
P_dir ==
    <<"a", "/">>
\* the operations and the causes of the errors of package os
str_open ==
    <<"o", "p", "e", "n">>
str_read ==
    <<"r", "e", "a", "d">>
str_ENOENT ==
    <<"n", "o", " ", "s", "u", "c", "h", " ", "f", "i", "l", "e", " ", "o",
      "r", " ", "d", "i", "r", "e", "c", "t", "o", "r", "y">>
str_EISDIR ==
    <<"i", "s", " ", "a", " ", "d", "i", "r", "e", "c", "t", "o", "r", "y">>

Paths ==
    {P_a, P_b, P_h, P_e, P_missing, P_dir}

\* the bytes of the documents: two with the same base name, one with a
\* carriage return and no heading, one of no byte
B_a ==
    L_heading \o <<NL>> \o L_list \o <<NL>>
B_b ==
    D_MustFix \o <<NL>> \o L_text
B_h ==
    L_text \o <<"\r", NL>> \o D_noany \o <<"\r", NL>>
B_e ==
    <<>>

\* per path: the error of os.Open, the error of Read, the bytes
Files ==
    [p \in Paths |->
        CASE p = P_a -> [open |-> <<>>, read |-> <<>>, bytes |-> B_a]
          [] p = P_b -> [open |-> <<>>, read |-> <<>>, bytes |-> B_b]
          [] p = P_h -> [open |-> <<>>, read |-> <<>>, bytes |-> B_h]
          [] p = P_e -> [open |-> <<>>, read |-> <<>>, bytes |-> B_e]
          [] p = P_dir -> [open |-> <<>>, read |-> str_EISDIR, bytes |-> <<>>]
          [] OTHER -> [open |-> str_ENOENT, read |-> <<>>, bytes |-> <<>>]]

\* the *os.PathError of a failed operation
PathError(op, path, errno) ==
    [Op |-> op, Path |-> path, Err |-> errno]

\* (*os.PathError).Error()
ErrorText(e) ==
    e.Op \o <<" ">> \o e.Path \o <<":", " ">> \o e.Err

---------------------------------------------------------------------------
(* ParseGuidelinesFromFile.                                                *)

str_failed_open ==
    <<"f", "a", "i", "l", "e", "d", " ", "t", "o", " ", "o", "p", "e", "n",
      " ", "g", "u", "i", "d", "e", "l", "i", "n", "e", " ", "f", "i", "l",
      "e", ":", " ">>
str_failed_read ==
    <<"f", "a", "i", "l", "e", "d", " ", "t", "o", " ", "r", "e", "a", "d",
      " ", "g", "u", "i", "d", "e", "l", "i", "n", "e", " ", "f", "i", "l",
      "e", ":", " ">>

\* fmt.Errorf(prefix + "%w", cause)
Errorf(prefix, cause) ==
    [msg |-> prefix \o ErrorText(cause), cause |-> cause]

\* the tokens of bufio.Scanner with bufio.ScanLines: the lines without
\* their end, a carriage return before the end dropped, no token for no
\* byte after the last newline
ScanLines(bytes) ==
    LET parts == Split(bytes)
        kept == IF parts[Len(parts)] = <<>>
                THEN SubSeq(parts, 1, Len(parts) - 1) ELSE parts
    IN  [k \in 1..Len(kept) |->
            IF Len(kept[k]) > 0 /\ kept[k][Len(kept[k])] = "\r"
            THEN SubSeq(kept[k], 1, Len(kept[k]) - 1) ELSE kept[k]]

\* the loop of readFileContent: every token and a newline
RECURSIVE WriteLines(_, _, _)
WriteLines(tokens, j, acc) ==
    IF j > Len(tokens) THEN acc
    ELSE WriteLines(tokens, j + 1, acc \o tokens[j] \o <<NL>>)

\* readFileContent(file) of the file at path
readFileContent(path) ==
    IF Files[path].read # <<>>
    THEN [content |-> <<>>,
          err |-> PathError(str_read, path, Files[path].read)]
    ELSE [content |-> WriteLines(ScanLines(Files[path].bytes), 1, <<>>),
          err |-> NoCause]

\* the last position of character c in s at or before j, 0 when none
RECURSIVE LastIndex(_, _, _)
LastIndex(s, c, j) ==
    IF j = 0 \/ s[j] = c THEN j ELSE LastIndex(s, c, j - 1)

\* filepath.Base: the last element of the path, trailing separators dropped
Base(path) ==
    IF path = <<>> THEN <<".">>
    ELSE LET p == SubSeq(path, 1, Len(path) - RunLenBack(path, Len(path), {"/"}))
         IN  IF p = <<>> THEN <<"/">>
             ELSE SubSeq(p, LastIndex(p, "/", Len(p)) + 1, Len(p))

\* ParseGuidelinesFromFile going on after a failed read
ParseGuidelinesFromFile_IgnoreRead(path, kind, t) ==
    IF Files[path].open # <<>>
    THEN [set |-> NoSet,
          err |-> Errorf(str_failed_open,
                         PathError(str_open, path, Files[path].open)),
          calls |-> <<"os.Open">>]
    ELSE [set |-> ParseGuidelines(readFileContent(path).content,
                                  Base(path), kind, t),
          err |-> NoError,
          calls |-> <<"os.Open", "readFileContent", "ParseGuidelines">>]

\* ParseGuidelinesFromFile(filePath, guidelineType) when time.Now() returns
\* t: the set (its value, not yet allocated), the error, the calls made
ParseGuidelinesFromFile(path, kind, t) ==
    IF Files[path].open # <<>>
    THEN [set |-> NoSet,
          err |-> Errorf(str_failed_open,
                         PathError(str_open, path, Files[path].open)),
          calls |-> <<"os.Open">>]
    ELSE IF readFileContent(path).err # NoCause
    THEN [set |-> NoSet,
          err |-> Errorf(str_failed_read, readFileContent(path).err),
          calls |-> <<"os.Open", "readFileContent">>]
    ELSE [set |-> ParseGuidelines(readFileContent(path).content,
                                  Base(path), kind, t),
          err |-> NoError,
          calls |-> <<"os.Open", "readFileContent", "ParseGuidelines">>]

---------------------------------------------------------------------------
(* The analyzer and the handlers of the server.                            *)

\* number of sets loaded in one run of the server
MaxLoads ==
    3

str_Error_loading ==
    <<"E", "r", "r", "o", "r", " ", "l", "o", "a", "d", "i", "n", "g", " ",
      "g", "u", "i", "d", "e", "l", "i", "n", "e", "s", ":", " ">>
str_Successfully_loaded ==
    <<"S", "u", "c", "c", "e", "s", "s", "f", "u", "l", "l", "y", " ", "l",
      "o", "a", "d", "e", "d", " ">>
str_guidelines_from ==
    <<" ", "g", "u", "i", "d", "e", "l", "i", "n", "e", "s", " ", "f", "r",
      "o", "m", " ">>
str_guideline ==
    <<"g", "u", "i", "d", "e", "l", "i", "n", "e">>
str_According_to ==
    <<"A", "c", "c", "o", "r", "d", "i", "n", "g", " ", "t", "o", " ">>
str_guidelines ==
    <<" ", "g", "u", "i", "d", "e", "l", "i", "n", "e", "s">>
str_standard_practices ==
    <<"t", "y", "p", "e", "s", "c", "r", "i", "p", "t", "-", "s", "t", "a",
      "n", "d", "a", "r", "d", "-", "p", "r", "a", "c", "t", "i", "c", "e",
      "s">>

\* LoadGuidelines keeping the entry a name already has
LoadGuidelines_FirstWins(reg, hp, p) ==
    [registry |-> [n \in DOMAIN reg \cup {hp[p].Name} |->
                      IF n \in DOMAIN reg THEN reg[n] ELSE p],
     heap |-> hp]

\* LoadGuidelines copying the new set into the object the name already has
LoadGuidelines_InPlace(reg, hp, p) ==
    IF hp[p].Name \in DOMAIN reg
    THEN [registry |-> reg,
          heap |-> [hp EXCEPT ![reg[hp[p].Name]] = hp[p]]]
    ELSE [registry |-> [n \in DOMAIN reg \cup {hp[p].Name} |->
                           IF n = hp[p].Name THEN p ELSE reg[n]],
          heap |-> hp]

\* Analyzer.LoadGuidelines(guidelineSet), p being the pointer: the map and
\* the objects after the call
LoadGuidelines(reg, hp, p) ==
    [registry |-> [n \in DOMAIN reg \cup {hp[p].Name} |->
                      IF n = hp[p].Name THEN p ELSE reg[n]],
     heap |-> hp]

\* the error result of LoadGuidelinesHandler
ErrorResponse(e) ==
    [NoResponse EXCEPT !.Text = str_Error_loading \o e.msg]

\* the readings of the clock while the server runs
ServerInstants ==
    {7}

\* the results of ParseGuidelinesFromFile for the arguments of the handler
\* and the readings of the clock, computed once
FromFileTable ==
    {<<a, ParseGuidelinesFromFile(a[1], a[2], a[3])>> :
        a \in Paths \X Kinds \X ServerInstants}

\* the entry of the table for the arguments
FromFile(path, kind, t) ==
    (CHOOSE e \in FromFileTable : e[1] = <<path, kind, t>>)[2]

\* LoadGuidelinesHandler refusing a set that has warnings
LoadGuidelinesHandler_Strict(path, kind, t) ==
    LET r == FromFile(path, kind, t)
        p == Len(heap) + 1
        w == ValidateGuidelines(r.set)
    IN  /\ pc = "idle"
        /\ Len(loads) < MaxLoads
        /\ request' = [tool |-> "load_guidelines", path |-> path,
                       kind |-> kind, code |-> <<>>]
        /\ now' = t
        /\ loadErr' = r.err
        /\ IF r.err # NoError \/ w # <<>>
           THEN /\ calls' = r.calls
                /\ response' = ErrorResponse(r.err)
                /\ UNCHANGED <<heap, registry, loads, warnings>>
           ELSE /\ calls' = r.calls \o <<"ValidateGuidelines", "LoadGuidelines">>
                /\ warnings' = w
                /\ heap' = LoadGuidelines(registry, Append(heap, r.set), p).heap
                /\ registry' =
                      LoadGuidelines(registry, Append(heap, r.set), p).registry
                /\ loads' = Append(loads, p)
                /\ response' =
                      [NoResponse EXCEPT
                          !.success = TRUE,
                          !.guideline_set = p,
                          !.warnings = w,
                          !.message = str_Successfully_loaded
                                      \o Itoa(Len(r.set.Guidelines))
                                      \o str_guidelines_from \o r.set.Name]
        /\ UNCHANGED <<content, name, guidelineType, pc, guidelineSet, err,
                       sections, secIdx, guidelines, lines, lineIdx, guideline,
                       currentContent, inCodeBlock, currentExample, lastKind,
                       first, other, tools, goroutines>>

\* LoadGuidelinesHandler with the arguments GuidelinePath and GuidelineType,
\* time.Now() returning t; the set ParseGuidelines returns is the object at
\* the next address
LoadGuidelinesHandler(path, kind, t) ==
    LET r == FromFile(path, kind, t)
        p == Len(heap) + 1
    IN  /\ pc = "idle"
        /\ Len(loads) < MaxLoads
        /\ request' = [tool |-> "load_guidelines", path |-> path,
                       kind |-> kind, code |-> <<>>]
        /\ now' = t
        /\ loadErr' = r.err
        /\ IF r.err # NoError
           THEN /\ calls' = r.calls
                /\ response' = ErrorResponse(r.err)
                /\ UNCHANGED <<heap, registry, loads, warnings>>
           ELSE /\ calls' = r.calls \o <<"ValidateGuidelines", "LoadGuidelines">>
                /\ warnings' = ValidateGuidelines(r.set)
                /\ heap' = LoadGuidelines(registry, Append(heap, r.set), p).heap
                /\ registry' =
                      LoadGuidelines(registry, Append(heap, r.set), p).registry
                /\ loads' = Append(loads, p)
                /\ response' =
                      [NoResponse EXCEPT
                          !.success = TRUE,
                          !.guideline_set = p,
                          !.warnings = warnings',
                          !.message = str_Successfully_loaded
                                      \o Itoa(Len(r.set.Guidelines))
                                      \o str_guidelines_from \o r.set.Name]
        /\ UNCHANGED <<content, name, guidelineType, pc, guidelineSet, err,
                       sections, secIdx, guidelines, lines, lineIdx, guideline,
                       currentContent, inCodeBlock, currentExample, lastKind,
                       first, other, tools, goroutines>>

\* RuleLoop leaving the rules of a guideline at the first one found
RECURSIVE RuleLoop_Break(_, _, _, _, _)
RuleLoop_Break(code, set, g, j, acc) ==
    IF j > Len(g.Rules) THEN acc
    ELSE IF Contains(code, g.Rules[j])
         THEN Append(acc, [Type |-> str_guideline,
                           Description |-> g.Description,
                           Reasoning |-> str_According_to \o set.Name
                                         \o str_guidelines,
                           Priority |-> g.Priority,
                           GuidelineRef |-> g.ID])
         ELSE RuleLoop_Break(code, set, g, j + 1, acc)

\* the improvements of one guideline: one for every rule found in the code
RECURSIVE RuleLoop(_, _, _, _, _)
RuleLoop(code, set, g, j, acc) ==
    IF j > Len(g.Rules) THEN acc
    ELSE RuleLoop(code, set, g, j + 1,
                  IF Contains(code, g.Rules[j])
                  THEN Append(acc, [Type |-> str_guideline,
                                    Description |-> g.Description,
                                    Reasoning |-> str_According_to \o set.Name
                                                  \o str_guidelines,
                                    Priority |-> g.Priority,
                                    GuidelineRef |-> g.ID])
                  ELSE acc)

\* the loop of applyGuidelines over the guidelines of the set
RECURSIVE GuidelineLoop(_, _, _, _)
GuidelineLoop(code, set, i, acc) ==
    IF i > Len(set.Guidelines) THEN acc
    ELSE GuidelineLoop(code, set, i + 1,
                       RuleLoop(code, set, set.Guidelines[i], 1, acc))

\* Analyzer.applyGuidelines(code, guidelineSet)
applyGuidelines(code, set) ==
    GuidelineLoop(code, set, 1, <<>>)

\* the orders in which a range loop can visit the keys of the map
RangeOrders(reg) ==
    {o \in [1..Cardinality(DOMAIN reg) -> DOMAIN reg] :
        \A a, b \in DOMAIN o : a # b => o[a] # o[b]}

\* the loop of SuggestImprovements over the map, in the order o
RECURSIVE AppliedLoop(_, _, _, _)
AppliedLoop(code, o, k, acc) ==
    IF k > Len(o) THEN acc
    ELSE AppliedLoop(code, o, k + 1,
                     [Improvements |-> acc.Improvements
                                       \o applyGuidelines(code, heap[registry[o[k]]]),
                      AppliedRules |-> Append(acc.AppliedRules, o[k])])

\* the code snippets given to SuggestImprovements
Snippets ==
    {<<>>, <<"a", ":", " ">> \o SubSeq(D_noany, 3, Len(D_noany))}

\* Analyzer.SuggestImprovements(params), called by
\* SuggestImprovementsHandler: the part that reads the loaded guidelines (the
\* built-in analyses of the snippet read nothing but the snippet)
SuggestImprovements(code) ==
    /\ pc = "idle"
    /\ \E o \in RangeOrders(registry) :
          LET res == AppliedLoop(code, o, 1,
                                 [Improvements |-> <<>>, AppliedRules |-> <<>>])
          IN  response' =
                [NoResponse EXCEPT
                    !.success = TRUE,
                    !.Improvements = res.Improvements,
                    !.AppliedRules = Append(res.AppliedRules,
                                            str_standard_practices)]
    /\ request' = [tool |-> "suggest_improvements", path |-> <<>>,
                   kind |-> <<>>, code |-> code]
    /\ calls' = <<"SuggestImprovements", "applyGuidelines">>
    /\ UNCHANGED <<content, name, guidelineType, now, pc, guidelineSet, err,
                   sections, secIdx, guidelines, lines, lineIdx, guideline,
                   currentContent, inCodeBlock, currentExample, lastKind,
                   heap, registry, loads, warnings, loadErr, first, other,
                   tools, goroutines>>

InitServer ==
    /\ pc = "idle"
    /\ guidelineSet = NoSet
    /\ NoCall
    /\ OuterInit

NextServer ==
    \/ \E path \in Paths, kind \in Kinds, t \in ServerInstants :
          LoadGuidelinesHandler(path, kind, t)
    \/ \E code \in Snippets : SuggestImprovements(code)

SpecServer ==
    InitServer /\ [][NextServer]_vars

---------------------------------------------------------------------------
(* Two calls of ParseGuidelines, one after the other, on the same Parser   *)
(* with the same arguments.                                                *)

\* the arguments of the two calls and the clock reading of the first
TwiceInputs ==
    {<<c, N_file, k, 0>> : c \in SampleDocs \cup Docs(MaxSize - 1), k \in Kinds}

InitTwice ==
    /\ \E in \in TwiceInputs :
          /\ content = in[1]
          /\ name = in[2]
          /\ guidelineType = in[3]
          /\ now = in[4]
    /\ OuterInit
    /\ pc = "call"
    /\ guidelineSet = NoSet
    /\ err = "unset"
    /\ sections = <<>>
    /\ secIdx = 0
    /\ guidelines = <<>>
    /\ lines = <<>>
    /\ lineIdx = 0
    /\ guideline = NilGuideline
    /\ currentContent = <<>>
    /\ inCodeBlock = FALSE
    /\ currentExample = NilExample
    /\ lastKind = "none"

\* the caller keeps the set of the first call and calls ParseGuidelines
\* again with the same arguments, the clock reading t; the variables of the
\* model still hold what the first call left in them
CallAgain(t) ==
    /\ pc = "done"
    /\ first = NoSet
    /\ first' = guidelineSet
    /\ now' = t
    /\ pc' = "call"
    /\ UNCHANGED <<content, name, guidelineType, guidelineSet, err, sections,
                   secIdx, guidelines, lines, lineIdx, guideline, currentContent,
                   inCodeBlock, currentExample, lastKind, heap, registry, loads,
                   request, response, warnings, calls, loadErr, other,
                   tools, goroutines>>

NextTwice ==
    \/ Next
    \/ \E t \in Instants : CallAgain(t)

SpecTwice ==
    InitTwice /\ [][NextTwice]_vars

---------------------------------------------------------------------------
(* Two goroutines calling ParseGuidelines on the same Parser.  The Parser  *)
(* has the three compiled expressions and nothing else; the variables of   *)
(* the model hold the frame of the goroutine that is running.              *)

\* an unclosed code block under a heading
UnclosedDoc ==
    Join(<<L_heading, L_fence, L_text>>)

\* the documents of the concurrent calls
ConcDocs ==
    {LabelDoc, RulesDoc, NamingDocInline, UnclosedDoc}

\* the arguments and the locals of the running call
Frame ==
    [content |-> content, name |-> name, guidelineType |-> guidelineType,
     now |-> now, pc |-> pc, guidelineSet |-> guidelineSet, err |-> err,
     sections |-> sections, secIdx |-> secIdx, guidelines |-> guidelines,
     lines |-> lines, lineIdx |-> lineIdx, guideline |-> guideline,
     currentContent |-> currentContent, inCodeBlock |-> inCodeBlock,
     currentExample |-> currentExample, lastKind |-> lastKind]

\* the frame of a call that was not started
StartFrame(text, nm, kind, t) ==
    [content |-> text, name |-> nm, guidelineType |-> kind,
     now |-> t, pc |-> "call", guidelineSet |-> NoSet, err |-> "unset",
     sections |-> <<>>, secIdx |-> 0, guidelines |-> <<>>,
     lines |-> <<>>, lineIdx |-> 0, guideline |-> NilGuideline,
     currentContent |-> <<>>, inCodeBlock |-> FALSE,
     currentExample |-> NilExample, lastKind |-> "none"]

\* Resume with inCodeBlock shared by the goroutines, as if it were a field
\* of the Parser
Resume_SharedCodeBlock(f) ==
    /\ content' = f.content
    /\ name' = f.name
    /\ guidelineType' = f.guidelineType
    /\ now' = f.now
    /\ pc' = f.pc
    /\ guidelineSet' = f.guidelineSet
    /\ err' = f.err
    /\ sections' = f.sections
    /\ secIdx' = f.secIdx
    /\ guidelines' = f.guidelines
    /\ lines' = f.lines
    /\ lineIdx' = f.lineIdx
    /\ guideline' = f.guideline
    /\ currentContent' = f.currentContent
    /\ inCodeBlock' = inCodeBlock
    /\ currentExample' = f.currentExample
    /\ lastKind' = f.lastKind

\* the goroutine with frame f runs: its arguments and locals are the
\* current ones
Resume(f) ==
    /\ content' = f.content
    /\ name' = f.name
    /\ guidelineType' = f.guidelineType
    /\ now' = f.now
    /\ pc' = f.pc
    /\ guidelineSet' = f.guidelineSet
    /\ err' = f.err
    /\ sections' = f.sections
    /\ secIdx' = f.secIdx
    /\ guidelines' = f.guidelines
    /\ lines' = f.lines
    /\ lineIdx' = f.lineIdx
    /\ guideline' = f.guideline
    /\ currentContent' = f.currentContent
    /\ inCodeBlock' = f.inCodeBlock
    /\ currentExample' = f.currentExample
    /\ lastKind' = f.lastKind

InitConc ==
    /\ \E c1 \in ConcDocs, c2 \in ConcDocs :
          /\ content = c1
          /\ other = StartFrame(c2, N_file, <<>>, 7)
    /\ name = N_file
    /\ guidelineType = K_team
    /\ now = 0
    /\ pc = "call"
    /\ guidelineSet = NoSet
    /\ err = "unset"
    /\ sections = <<>>
    /\ secIdx = 0
    /\ guidelines = <<>>
    /\ lines = <<>>
    /\ lineIdx = 0
    /\ guideline = NilGuideline
    /\ currentContent = <<>>
    /\ inCodeBlock = FALSE
    /\ currentExample = NilExample
    /\ lastKind = "none"
    /\ heap = <<>>
    /\ registry = EmptyMap
    /\ loads = <<>>
    /\ request = NoRequest
    /\ response = NoResponse
    /\ warnings = <<>>
    /\ calls = <<>>
    /\ loadErr = NoError
    /\ first = NoSet
    /\ tscTool = NilCompiler
    /\ commands = <<>>
    /\ loader = NoFrame
    /\ reader = NoFrame

\* the scheduler takes the processor from the running goroutine and gives
\* it to the other one, which has not returned yet
Switch ==
    /\ other.pc # "done"
    /\ other' = Frame
    /\ Resume(other)
    /\ UNCHANGED <<heap, registry, loads, request, response, warnings, calls,
                   loadErr, first, tools, goroutines>>

NextConc ==
    \/ Next
    \/ Switch

SpecConc ==
    InitConc /\ [][NextConc]_vars

---------------------------------------------------------------------------
(* Calls of applyGuidelines on loaded sets of every shape.                 *)

\* number of rules of the longest rule list of a guideline
MaxRules ==
    2

\* the rules of the guidelines: the text of list items
ApplyRules ==
    {<<"a">>, <<"a", "b">>}

\* the code snippets: one that holds no rule, one that holds the first, one
\* that holds both
ApplyCodes ==
    {<<"b">>, <<"b", "a">>, <<"a", "b">>}

\* the guideline parseSection returns for section k with this description
\* and these rules, no heading and no example
ApplyGuideline(k, d, rs) ==
    [ID |-> GuidelineID(k), Title |-> <<>>, Description |-> d,
     Category |-> <<>>,
     Priority |-> IF d = L_text THEN prio_medium ELSE prio_high,
     Examples |-> <<>>, Rules |-> rs]

\* the rule lists of a guideline
RuleLists ==
    UNION {[1..h -> ApplyRules] : h \in 0..MaxRules}

\* the loaded sets
ApplySets ==
    {[Name |-> N_file, Version |-> str_version,
      Description |-> SetDescription(<<>>), LoadedAt |-> FormatRFC3339(0),
      Guidelines |-> [k \in 1..h |-> ApplyGuideline(k, ds[k], rss[k])]] :
        h \in 0..MaxGuidelines,
        ds \in [1..MaxGuidelines -> {L_text, L_good}],
        rss \in [1..MaxGuidelines -> RuleLists]}

InitApply ==
    /\ guidelineSet \in ApplySets
    /\ pc = "apply"
    /\ NoCall
    /\ OuterInit

\* guidelineImprovements := a.applyGuidelines(params.CodeSnippet, guidelineSet)
Apply(code) ==
    /\ pc = "apply"
    /\ request' = [tool |-> "suggest_improvements", path |-> <<>>,
                   kind |-> <<>>, code |-> code]
    /\ response' = [NoResponse EXCEPT
                       !.Improvements = applyGuidelines(code, guidelineSet)]
    /\ pc' = "applied"
    /\ UNCHANGED <<content, name, guidelineType, now, guidelineSet, err,
                   sections, secIdx, guidelines, lines, lineIdx, guideline,
                   currentContent, inCodeBlock, currentExample, lastKind,
                   heap, registry, loads, warnings, calls, loadErr,
                   first, other, tools, goroutines>>

NextApply ==
    \E code \in ApplyCodes : Apply(code)

SpecApply ==
    InitApply /\ [][NextApply]_vars

---------------------------------------------------------------------------
(* The TypeScript compiler tool (internal/tools/tsc.go) and the commands   *)
(* it runs.                                                                *)

\* string literals of tsc.go
str_tsc ==
    <<"t", "s", "c">>
str_npx ==
    <<"n", "p", "x">>
arg_noEmit ==
    <<"-", "-", "n", "o", "E", "m", "i", "t">>
arg_pretty ==
    <<"-", "-", "p", "r", "e", "t", "t", "y">>
str_false ==
    <<"f", "a", "l", "s", "e">>
arg_project ==
    <<"-", "-", "p", "r", "o", "j", "e", "c", "t">>
arg_listFiles ==
    <<"-", "-", "l", "i", "s", "t", "F", "i", "l", "e", "s">>
arg_version ==
    <<"-", "-", "v", "e", "r", "s", "i", "o", "n">>
str_tsconfig ==
    <<"t", "s", "c", "o", "n", "f", "i", "g", ".", "j", "s", "o", "n">>

\* the executable of npx in a directory of PATH
P_usr_bin_npx ==
    <<"/", "u", "s", "r", "/", "b", "i", "n", "/", "n", "p", "x">>
\* a TypeScript file and a project directory
F_a_ts ==
    <<"a", ".", "t", "s">>
R_proj ==
    <<"p", "r", "o", "j">>

\* exec.LookPath("npx"): not found; found in a directory of PATH, which gives
\* the directory joined with the name; found in the current directory by a
\* PATH entry "." with the setting GODEBUG=execerrdot=0, which gives the
\* name as it is
LookPathResults ==
    {[path |-> <<>>, err |-> "ErrNotFound"],
     [path |-> P_usr_bin_npx, err |-> "nil"],
     [path |-> str_npx, err |-> "nil"]}

\* NewTypeScriptCompiler(), exec.LookPath returning look
NewTypeScriptCompiler(look) ==
    [isNil |-> FALSE,
     tscPath |-> IF look.err = "nil" THEN look.path ELSE str_tsc]

\* filepath.Join(dir, file) for a directory name that is not empty
FilepathJoin(dir, file) ==
    SubSeq(dir, 1, Len(dir) - RunLenBack(dir, Len(dir), {"/"}))
    \o <<"/">> \o file

\* types.TypeCheckParams and types.GetTypesParams
TypeCheckParams ==
    [FilePath : {<<>>, F_a_ts}, ProjectRoot : {<<>>, R_proj}]
GetTypesParams ==
    [FilePath : {F_a_ts}]

\* the exec.Cmd TypeCheck builds
TypeCheckCmd(tsc, params) ==
    [name |-> tsc.tscPath,
     args |-> (IF tsc.tscPath = str_npx THEN <<str_tsc>> ELSE <<>>)
              \o <<arg_noEmit, arg_pretty, str_false>>
              \o (IF params.ProjectRoot # <<>>
                  THEN <<arg_project,
                         FilepathJoin(params.ProjectRoot, str_tsconfig)>>
                  ELSE <<params.FilePath>>),
     dir |-> params.ProjectRoot]

\* the exec.Cmd GetTypes builds
GetTypesCmd(tsc, params) ==
    [name |-> tsc.tscPath,
     args |-> (IF tsc.tscPath = str_npx THEN <<str_tsc>> ELSE <<>>)
              \o <<arg_noEmit, arg_listFiles, params.FilePath>>,
     dir |-> <<>>]

\* the exec.Cmd CheckTSCAvailable builds; GetVersion builds the same
CheckTSCAvailableCmd(tsc) ==
    IF tsc.tscPath = str_npx
    THEN [name |-> str_npx, args |-> <<str_tsc, arg_version>>, dir |-> <<>>]
    ELSE [name |-> str_tsc, args |-> <<arg_version>>, dir |-> <<>>]
GetVersionCmd(tsc) ==
    IF tsc.tscPath = str_npx
    THEN [name |-> str_npx, args |-> <<str_tsc, arg_version>>, dir |-> <<>>]
    ELSE [name |-> str_tsc, args |-> <<arg_version>>, dir |-> <<>>]

\* number of commands of the longest history
MaxCommands ==
    3

\* a command run by a function of the tool, and whether it ended without
\* error
Ran(by, cmd, ok) ==
    [by |-> by, name |-> cmd.name, args |-> cmd.args, dir |-> cmd.dir,
     ok |-> ok]

InitTools ==
    /\ pc = "new"
    /\ guidelineSet = NoSet
    /\ NoCall
    /\ OuterInit

\* NewHandlers: tscTool: tools.NewTypeScriptCompiler()
NewHandlers ==
    /\ pc = "new"
    /\ \E look \in LookPathResults : tscTool' = NewTypeScriptCompiler(look)
    /\ pc' = "created"
    /\ UNCHANGED <<content, name, guidelineType, now, guidelineSet, err,
                   sections, secIdx, guidelines, lines, lineIdx, guideline,
                   currentContent, inCodeBlock, currentExample, lastKind,
                   heap, registry, loads, request, response, warnings, calls,
                   loadErr, first, other, commands, goroutines>>

\* logToolStatus, called by Run before the server serves: CheckTSCAvailable
\* and, when it returns nil, GetVersion
logToolStatus ==
    /\ pc = "created"
    /\ \E ok1, ok2 \in BOOLEAN :
          commands' =
            commands
            \o <<Ran("CheckTSCAvailable", CheckTSCAvailableCmd(tscTool), ok1)>>
            \o (IF ok1 THEN <<Ran("GetVersion", GetVersionCmd(tscTool), ok2)>>
                ELSE <<>>)
    /\ pc' = "serving"
    /\ UNCHANGED <<content, name, guidelineType, now, guidelineSet, err,
                   sections, secIdx, guidelines, lines, lineIdx, guideline,
                   currentContent, inCodeBlock, currentExample, lastKind,
                   heap, registry, loads, request, response, warnings, calls,
                   loadErr, first, other, tscTool, goroutines>>

\* what a handler of the tool leaves unchanged
ToolHandlerFrame ==
    UNCHANGED <<content, name, guidelineType, now, pc, guidelineSet, err,
                sections, secIdx, guidelines, lines, lineIdx, guideline,
                currentContent, inCodeBlock, currentExample, lastKind,
                heap, registry, loads, warnings, loadErr, first, other,
                tscTool, goroutines>>

\* TypeCheckHandler: h.tscTool.TypeCheck(params.Arguments); the result has
\* Success: err == nil
TypeCheckHandler(params, ok) ==
    /\ pc = "serving"
    /\ Len(commands) < MaxCommands
    /\ commands' = Append(commands,
                          Ran("TypeCheck", TypeCheckCmd(tscTool, params), ok))
    /\ request' = [tool |-> "type-check", path |-> params.FilePath,
                   kind |-> <<>>, code |-> <<>>]
    /\ response' = [NoResponse EXCEPT !.success = ok]
    /\ calls' = <<"TypeCheck">>
    /\ ToolHandlerFrame

\* GetTypesHandler: h.tscTool.GetTypes(params.Arguments)
GetTypesHandler(params, ok) ==
    /\ pc = "serving"
    /\ Len(commands) < MaxCommands
    /\ commands' = Append(commands,
                          Ran("GetTypes", GetTypesCmd(tscTool, params), ok))
    /\ request' = [tool |-> "get-types", path |-> params.FilePath,
                   kind |-> <<>>, code |-> <<>>]
    /\ response' = [NoResponse EXCEPT !.success = ok]
    /\ calls' = <<"GetTypes">>
    /\ ToolHandlerFrame

NextTools ==
    \/ NewHandlers
    \/ logToolStatus
    \/ \E params \in TypeCheckParams, ok \in BOOLEAN :
          TypeCheckHandler(params, ok)
    \/ \E params \in GetTypesParams, ok \in BOOLEAN :
          GetTypesHandler(params, ok)

SpecTools ==
    InitTools /\ [][NextTools]_vars

---------------------------------------------------------------------------
(* A load-guidelines request and a suggest-improvements request handled by *)
(* two goroutines.  The Analyzer has the map and no lock: the assignment   *)
(* of LoadGuidelines and the range loop of SuggestImprovements are steps   *)
(* of their own.  A range step taken while the assignment is under way is  *)
(* a data race: the Go runtime either stops the process with "concurrent   *)
(* map iteration and map write" or lets the loop go on.                    *)

\* the files the loader is asked for: two with the same base name, one
\* other and one that does not exist
RacePaths ==
    {P_a, P_b, P_h, P_missing}

\* the snippet of the suggest-improvements requests
RaceCode ==
    <<"a", ":", " ">> \o SubSeq(D_noany, 3, Len(D_noany))

\* the process was stopped by the runtime
Fatal ==
    [pc |-> "fatal"]

InitRace ==
    /\ pc = "idle"
    /\ guidelineSet = NoSet
    /\ NoCall
    /\ OuterInit

\* what the two goroutines leave unchanged
RaceFrame ==
    UNCHANGED <<content, name, guidelineType, now, pc, guidelineSet, err,
                sections, secIdx, guidelines, lines, lineIdx, guideline,
                currentContent, inCodeBlock, currentExample, lastKind, calls,
                first, other, tools>>

\* LoadGuidelinesHandler up to the call of LoadGuidelines: the file is
\* parsed and validated; the handler returns at once when that fails
Load_Parse(path) ==
    LET r == FromFile(path, <<>>, 7)
    IN  /\ reader.pc # "fatal"
        /\ loader.pc = "none"
        /\ Len(heap) < MaxLoads
        /\ loadErr' = r.err
        /\ IF r.err # NoError
           THEN /\ response' = ErrorResponse(r.err)
                /\ UNCHANGED <<heap, warnings, loader>>
           ELSE /\ heap' = Append(heap, r.set)
                /\ warnings' = ValidateGuidelines(r.set)
                /\ loader' = [pc |-> "loading", set |-> Len(heap) + 1]
                /\ UNCHANGED response
        /\ UNCHANGED <<registry, loads, request, reader>>
        /\ RaceFrame

\* a.guidelines[guidelineSet.Name] = guidelineSet begins
Load_Assign ==
    /\ reader.pc # "fatal"
    /\ loader.pc = "loading"
    /\ loader' = [loader EXCEPT !.pc = "writing"]
    /\ UNCHANGED <<heap, registry, loads, request, response, warnings,
                   loadErr, reader>>
    /\ RaceFrame

\* the assignment ends and LoadGuidelinesHandler returns; a range loop that
\* is under way may or may not come to visit a key that is new
Load_Return ==
    LET p == loader.set
        nm == heap[p].Name
    IN  /\ reader.pc # "fatal"
        /\ loader.pc = "writing"
        /\ registry' = LoadGuidelines(registry, heap, p).registry
        /\ loads' = Append(loads, p)
        /\ loader' = NoFrame
        /\ response' =
              [NoResponse EXCEPT
                  !.success = TRUE,
                  !.guideline_set = p,
                  !.warnings = warnings,
                  !.message = str_Successfully_loaded
                              \o Itoa(Len(heap[p].Guidelines))
                              \o str_guidelines_from \o nm]
        /\ \/ reader' = reader
           \/ /\ reader.pc = "ranging"
              /\ nm \notin DOMAIN registry
              /\ reader' = [reader EXCEPT !.todo = @ \union {nm}]
        /\ UNCHANGED <<heap, request, warnings, loadErr>>
        /\ RaceFrame

\* SuggestImprovements reaches its range loop over a.guidelines
Suggest_Range ==
    /\ reader.pc = "none"
    /\ \/ reader' = [pc |-> "ranging", todo |-> DOMAIN registry,
                     seen |-> <<>>, Improvements |-> <<>>]
       \/ loader.pc = "writing" /\ reader' = Fatal
    /\ request' = [tool |-> "suggest_improvements", path |-> <<>>,
                   kind |-> <<>>, code |-> RaceCode]
    /\ UNCHANGED <<heap, registry, loads, response, warnings, loadErr,
                   loader>>
    /\ RaceFrame

\* one iteration of the loop: the next key, its set, applyGuidelines
Suggest_Next ==
    /\ reader.pc = "ranging"
    /\ \/ \E k \in reader.todo :
             reader' = [reader EXCEPT
                          !.todo = @ \ {k},
                          !.seen = Append(@, <<k, registry[k]>>),
                          !.Improvements =
                              @ \o applyGuidelines(RaceCode, heap[registry[k]])]
       \/ loader.pc = "writing" /\ reader' = Fatal
    /\ UNCHANGED <<heap, registry, loads, request, response, warnings,
                   loadErr, loader>>
    /\ RaceFrame

\* the loop ends and SuggestImprovements returns
Suggest_Return ==
    /\ reader.pc = "ranging"
    /\ reader.todo = {}
    /\ response' =
          [NoResponse EXCEPT
              !.success = TRUE,
              !.Improvements = reader.Improvements,
              !.AppliedRules =
                  [i \in 1..Len(reader.seen) |-> reader.seen[i][1]]
                  \o <<str_standard_practices>>]
    /\ reader' = NoFrame
    /\ UNCHANGED <<heap, registry, loads, request, warnings, loadErr, loader>>
    /\ RaceFrame

NextRace ==
    \/ \E path \in RacePaths : Load_Parse(path)
    \/ Load_Assign
    \/ Load_Return
    \/ Suggest_Range
    \/ Suggest_Next
    \/ Suggest_Return

SpecRace ==
    InitRace /\ [][NextRace]_vars

---------------------------------------------------------------------------
(* Helpers of the properties.                                              *)

\* concatenation of a sequence of strings
RECURSIVE Concat(_)
Concat(ss) ==
    IF Len(ss) = 0 THEN <<>> ELSE ss[1] \o Concat(Tail(ss))

\* splitIntoSections has returned
SplitDone ==
    pc # "call"

\* no line of the input matches the heading pattern
NoHeadingLine ==
    \A j \in 1..Len(Split(content)) : ~HeaderMatch(Split(content)[j])

---------------------------------------------------------------------------
(* Properties of the section splitter.                                     *)

\* the call made step by step returns what the call as a function returns
StepsAgreeWithFunction ==
    (pc = "done") =>
        guidelineSet = ParseGuidelines(content, name, guidelineType, now)

\* C1, as stated: the sections returned by splitIntoSections, concatenated
\* in order, are the input text, character for character.
C1_RoundTripExact ==
    SplitDone => Concat(sections) = content

\* C1, amended: the sections returned by splitIntoSections, concatenated in
\* order, are the input text followed by one newline; every line of the
\* input, the last one included, is written back with a newline after it.
C1_RoundTripPlusNewline ==
    SplitDone => Concat(sections) = content \o <<NL>>

\* C1 witness: a text of several sections that does not end with a newline
\* has been split.
C1_Witness ==
    /\ SplitDone
    /\ Len(sections) >= 2
    /\ Len(content) > 0
    /\ content[Len(content)] # NL

\* C9: for an input without any line matching the heading pattern,
\* splitIntoSections returns exactly one section, and the input is all of
\* that section but the newline written after its last line.
C9_NoHeadingOneSection ==
    (SplitDone /\ NoHeadingLine) =>
        /\ Len(sections) = 1
        /\ HasPrefix(sections[1], content)
        /\ Len(sections[1]) = Len(content) + 1

\* C9 witness: a text of several lines, none of them a heading, has been
\* split.
C9_Witness ==
    /\ SplitDone
    /\ NoHeadingLine
    /\ Len(Split(content)) >= 3
    /\ \E j \in 1..Len(Split(content)) : Split(content)[j] # <<>>

---------------------------------------------------------------------------
(* Helpers of the properties of the section extractor.                     *)

\* all examples of a sequence of guidelines, in order
RECURSIVE AllExamples(_)
AllExamples(gs) ==
    IF Len(gs) = 0 THEN <<>> ELSE gs[1].Examples \o AllExamples(Tail(gs))

\* the number an identifier ends with, read back from its digits
IdNumber(id) ==
    Atoi(SubSeq(id, Len(str_guideline_) + 1, Len(id)))

Categories ==
    {cat_typing, cat_naming, cat_functions, cat_modules, cat_error_handling,
     cat_async, cat_general}

Priorities ==
    {prio_high, prio_medium, prio_low}

\* ParseGuidelines has returned
Returned ==
    pc = "done"

\* the step that scans a closing code fence
ClosingFence ==
    ScanFence /\ inCodeBlock

\* a closing code fence was the last line scanned
FenceJustClosed ==
    pc = "scan" /\ lastKind = "fence" /\ ~inCodeBlock

\* a section whose lines are all empty
IsBlankSection(sec) ==
    \A j \in 1..Len(sec) : sec[j] = NL

---------------------------------------------------------------------------
(* Properties of the section extractor and of the document parser.         *)

\* C2, as stated: parsing the document "## Naming", "### Bad Example", a
\* fence holding "bad code", "### Good Example", a fence holding
\* "good code" yields two examples, the first with bad = "bad code" and the
\* second with good = "good code" (with the fences on one line, as the
\* specification writes them, or on lines of their own, as the repository's
\* sample documents do).
C2_HeadingLabelledExamples ==
    (Returned /\ content \in {NamingDoc, NamingDocInline}) =>
        LET ex == AllExamples(guidelineSet.Guidelines)
        IN  /\ Len(ex) = 2
            /\ ex[1].Bad = D_badcode
            /\ ex[2].Good = D_goodcode

\* C3, as stated: every guideline of every set ParseGuidelines returns has
\* a category among the seven categories and a priority among the three
\* priorities.
C3_CategoryAndPriorityEnumerated ==
    Returned =>
        \A k \in 1..Len(guidelineSet.Guidelines) :
            /\ guidelineSet.Guidelines[k].Category \in Categories
            /\ guidelineSet.Guidelines[k].Priority \in Priorities

\* C4, as stated: when a code fence closes while a current example exists
\* whose title contains "bad", "incorrect" or "don't" (in any case), the
\* accumulated code is stored in the example's bad field.
C4_BadTitleStoresBad ==
    [][(ClosingFence /\ ~currentExample.isNil
        /\ IsBadTitle(currentExample.Title))
       => currentExample'.Bad = TrimSpace(currentContent)]_vars

\* C5: when a code fence closes while a current example exists whose title
\* contains "good", "correct" or "do" (in any case), the accumulated code,
\* trimmed, is stored in the example's good field and nothing else of the
\* example changes; when the title has none of the good and bad keywords, or
\* there is no current example, the example is left as it was; in every
\* case the accumulator is empty and inCodeBlock is false afterwards.
C5_ClosingFence ==
    [][ClosingFence =>
        /\ currentContent' = <<>>
        /\ inCodeBlock' = FALSE
        /\ (~currentExample.isNil /\ IsGoodTitle(currentExample.Title)) =>
              currentExample' =
                  [currentExample EXCEPT !.Good = TrimSpace(currentContent)]
        /\ (currentExample.isNil
            \/ (~IsGoodTitle(currentExample.Title)
                /\ ~IsBadTitle(currentExample.Title))) =>
              currentExample' = currentExample]_vars

\* C5 witness: a fence has just closed on an example with a "good" title
\* and the code of the block is in its good field.
C5_Witness ==
    /\ FenceJustClosed
    /\ IsGoodTitle(currentExample.Title)
    /\ currentExample.Good # <<>>
    /\ currentContent = <<>>

\* C6, as stated: a section without any line of text (the section of the
\* empty document, for one) yields no guideline and is skipped, so that a
\* set may have fewer guidelines than the document has sections and its
\* ids may have gaps.
C6_BlankSectionsSkipped ==
    Returned =>
        \A k \in 1..Len(sections) :
            IsBlankSection(sections[k]) =>
                \A h \in 1..Len(guidelineSet.Guidelines) :
                    IdNumber(guidelineSet.Guidelines[h].ID) # k

\* C6, amended: the document parser numbers the sections 1..N in order and
\* the guideline extracted from section k has id guideline_k; every section
\* has at least one line, so every section yields a guideline, none is
\* skipped and the ids of a set are guideline_1 .. guideline_N without gaps.
C6_IdsFollowSections ==
    /\ Len(guidelines) = secIdx
    /\ \A k \in 1..Len(guidelines) :
          /\ HasPrefix(guidelines[k].ID, str_guideline_)
          /\ guidelines[k].ID = str_guideline_ \o Itoa(k)
    /\ Returned =>
          /\ guidelineSet.Guidelines = guidelines
          /\ Len(guidelineSet.Guidelines) = Len(sections)

\* C6 witness: a document of several sections, one of them without any
\* text, has been parsed.
C6_Witness ==
    /\ Returned
    /\ Len(sections) >= 2
    /\ \E k \in 1..Len(sections) : IsBlankSection(sections[k])

\* C7: in the set ParseGuidelines returns, and in the slice parseContent
\* builds, the ids are pairwise distinct and the numbers they end with
\* increase strictly along the sequence.
C7_IdsDistinctIncreasing ==
    \A gs \in {guidelines, guidelineSet.Guidelines} :
        \A a, b \in 1..Len(gs) :
            a < b => /\ gs[a].ID # gs[b].ID
                     /\ IdNumber(gs[a].ID) < IdNumber(gs[b].ID)

\* C7 witness: a set of at least three guidelines has been returned.
C7_Witness ==
    Returned /\ Len(guidelineSet.Guidelines) >= 3

\* C8: no example in the examples of any guideline, finished or under
\* construction, has both good and bad empty.
C8_NoEmptyExample ==
    \A ex \in {guideline.Examples} \cup {guidelines[k].Examples : k \in 1..Len(guidelines)}
              \cup {guidelineSet.Guidelines[k].Examples :
                      k \in 1..Len(guidelineSet.Guidelines)} :
        \A j \in 1..Len(ex) : ex[j].Good # <<>> \/ ex[j].Bad # <<>>

\* C8 witness: an example was kept, and a later example of the same section
\* is open with neither good nor bad set.
C8_Witness ==
    /\ pc = "scan"
    /\ Len(guideline.Examples) >= 1
    /\ ~currentExample.isNil
    /\ currentExample.Good = <<>>
    /\ currentExample.Bad = <<>>

\* C10: ParseGuidelines never fails: a call that has not returned is at a
\* position from which its next step can be taken and has set no error, and
\* a call that has returned has a nil error and a set
\* with the given name, the version 1.0.0 and the description
\* "<kind> coding guidelines", where kind is "general" for the empty kind.
C10_AlwaysReturnsSet ==
    /\ ~Returned =>
          /\ err = "unset"
          /\ pc \in {"call", "loop", "scan"}
          /\ pc = "scan" => lineIdx <= Len(lines)
    /\ Returned =>
          /\ err = "nil"
          /\ guidelineSet.Name = name
          /\ guidelineSet.Version = <<"1", ".", "0", ".", "0">>
          /\ guidelineSet.Description =
                IF guidelineType = <<>>
                THEN str_general \o str_coding_guidelines
                ELSE guidelineType \o str_coding_guidelines

\* C10 witness: a call with the empty text and the empty kind has returned.
C10_Witness ==
    /\ Returned
    /\ content = <<>>
    /\ guidelineType = <<>>
    /\ name # <<>>

---------------------------------------------------------------------------
(* Properties of the inference of category and priority, and of the rules. *)

\* the inference tables as ordered lists of (keywords, result)
CategoryTable ==
    <<[keys |-> {kw_type, kw_interface}, result |-> cat_typing],
      [keys |-> {kw_naming, kw_convention}, result |-> cat_naming],
      [keys |-> {kw_function, kw_method}, result |-> cat_functions],
      [keys |-> {kw_import, kw_export}, result |-> cat_modules],
      [keys |-> {kw_error, kw_exception}, result |-> cat_error_handling],
      [keys |-> {kw_async, kw_promise}, result |-> cat_async]>>

PriorityTable ==
    <<[keys |-> {kw_must, kw_required, kw_critical, kw_error},
       result |-> prio_high],
      [keys |-> {kw_should, kw_recommend}, result |-> prio_medium],
      [keys |-> {kw_could, kw_consider, kw_style, kw_formatting},
       result |-> prio_low]>>

\* the result of the first row, from row j on, one of whose keywords occurs
\* in the lower-cased title; the default when there is none
RECURSIVE FirstMatch(_, _, _, _)
FirstMatch(table, j, lower, default) ==
    IF j > Len(table) THEN default
    ELSE IF \E k \in table[j].keys : Contains(lower, k) THEN table[j].result
    ELSE FirstMatch(table, j + 1, lower, default)

\* the guidelines built so far: the finished ones and the one in progress
BuiltGuidelines ==
    {guidelines[k] : k \in 1..Len(guidelines)}
    \cup (IF guideline.isNil THEN {} ELSE {DerefGuideline(guideline)})

\* C14: the category of every guideline that has a title is the result of
\* the first row of the category table one of whose keywords occurs in the
\* lower-cased title, general when there is none; a title with "type" and
\* "error" is typing.
C14_CategoryFirstMatch ==
    \A g \in BuiltGuidelines :
        g.Title # <<>> =>
            /\ g.Category =
                  FirstMatch(CategoryTable, 1, ToLower(g.Title), cat_general)
            /\ (Contains(ToLower(g.Title), kw_type)
                /\ Contains(ToLower(g.Title), kw_error)) =>
                  g.Category = cat_typing

\* C14 witness: a document whose title has "error" before "type" has been
\* parsed.
C14_Witness ==
    /\ Returned
    /\ content = <<"#", " ">> \o W_Error \o <<" ">> \o W_Type

\* C15: the priority of every guideline that has a title is the result of
\* the first row of the priority table one of whose keywords occurs in the
\* lower-cased title, medium when there is none; the document that is the
\* heading "Must Fix This" yields one guideline, with priority high and
\* category general.
C15_PriorityFirstMatch ==
    /\ \A g \in BuiltGuidelines :
          g.Title # <<>> =>
              g.Priority =
                  FirstMatch(PriorityTable, 1, ToLower(g.Title), prio_medium)
    /\ (Returned /\ content = MustFixDoc) =>
          /\ Len(guidelineSet.Guidelines) = 1
          /\ guidelineSet.Guidelines[1].Priority = prio_high
          /\ guidelineSet.Guidelines[1].Category = cat_general

\* C15 witness: the heading "Must Fix This" has been parsed, and so has a
\* title with a medium keyword before a low one.
C15_Witness ==
    /\ Returned
    /\ \/ content = MustFixDoc
       \/ content = <<"#", " ">> \o W_should \o <<" ">> \o W_Style

\* a trimmed line that is a list item: a bullet, white space, text
IsListLine(line) ==
    /\ Len(line) >= 3
    /\ line[1] \in {"*", "-", "+"}
    /\ line[2] \in SpaceChars

\* the text of a list item after the bullet and the white space
ListText(line) ==
    SubSeq(line, 2 + RunLen(line, 2, SpaceChars), Len(line))

\* the rules of the only guideline of the returned set
OnlyRules ==
    guidelineSet.Guidelines[1].Rules

\* the final rules of the two documents with rules
RulesOfRulesDocs ==
    /\ (Returned /\ content = TwoRulesDoc) =>
          /\ Len(guidelineSet.Guidelines) = 1
          /\ OnlyRules = <<SubSeq(D_noany, 3, Len(D_noany)),
                           SubSeq(D_preferconst, 3, Len(D_preferconst))>>
    /\ (Returned /\ content = RulesDoc) =>
          /\ Len(guidelineSet.Guidelines) = 1
          /\ OnlyRules = <<SubSeq(D_noany, 3, Len(D_noany)),
                           SubSeq(D_preferconst, 3, Len(D_preferconst)),
                           SubSeq(D_goodrule, 4, Len(D_goodrule))>>
          /\ guidelineSet.Guidelines[1].Examples = <<>>

\* C16: a step that scans a list item outside a code block appends the text
\* after the bullet and the white space to the rules and changes neither
\* the description, the examples, the current example nor the code block
\* state, whatever words the item holds; the section with the list lines
\* "- no-any" and "- prefer-const" yields the rules "no-any" and
\* "prefer-const" in that order, and an item with "good", "bad" and
\* "example" is one more rule and no example.
C16_ListItemsAreRules ==
    /\ [][(pc = "scan" /\ lineIdx < Len(lines) /\ ~inCodeBlock
           /\ IsListLine(CurLine) /\ pc' = "scan")
          => /\ guideline' = [guideline EXCEPT
                                !.Rules = Append(@, ListText(CurLine))]
             /\ UNCHANGED <<currentExample, currentContent, inCodeBlock>>]_vars
    /\ []RulesOfRulesDocs

\* C16 witness: the list item with "good", "bad" and "example" was scanned
\* while an example was open, and is the third rule.
C16_Witness ==
    /\ pc = "scan"
    /\ lastKind = "list"
    /\ ~currentExample.isNil
    /\ Len(guideline.Rules) = 3
    /\ Contains(ToLower(guideline.Rules[3]), kw_example)

---------------------------------------------------------------------------
(* Properties of ValidateGuidelines.                                       *)

\* strings.HasSuffix
HasSuffix(s, suffix) ==
    /\ Len(s) >= Len(suffix)
    /\ SubSeq(s, Len(s) - Len(suffix) + 1, Len(s)) = suffix

\* the position a warning text speaks of: the number after "Guideline "
WarningPosition(w) ==
    Atoi(SubSeq(w, Len(str_Guideline) + 1,
                Len(str_Guideline) + RunLen(w, Len(str_Guideline) + 1,
                                            {DigitChars[d] : d \in 1..10})))

\* what a warning text says: the position of the guideline, 0 for the set,
\* and the rank of the check among the checks of that position
WarningKey(w) ==
    IF w = str_name_is_empty THEN <<0, 1>>
    ELSE IF w = str_no_guidelines THEN <<0, 2>>
    ELSE IF HasSuffix(w, str_has_no_title) THEN <<WarningPosition(w), 1>>
    ELSE IF HasSuffix(w, str_has_no_description) THEN <<WarningPosition(w), 2>>
    ELSE IF HasSuffix(w, str_has_no_rules) THEN <<WarningPosition(w), 3>>
    ELSE <<0, 0>>

\* the keys of the warnings a set deserves
DeservedKeys(set) ==
    (IF set.Name = <<>> THEN {<<0, 1>>} ELSE {})
    \cup (IF set.Guidelines = <<>> THEN {<<0, 2>>} ELSE {})
    \cup {<<n, 1>> : n \in {m \in 1..Len(set.Guidelines) :
                              set.Guidelines[m].Title = <<>>}}
    \cup {<<n, 2>> : n \in {m \in 1..Len(set.Guidelines) :
                              set.Guidelines[m].Description = <<>>}}
    \cup {<<n, 3>> : n \in {m \in 1..Len(set.Guidelines) :
                              /\ set.Guidelines[m].Rules = <<>>
                              /\ set.Guidelines[m].Examples = <<>>}}

\* key a comes before key b
KeyBefore(a, b) ==
    a[1] < b[1] \/ (a[1] = b[1] /\ a[2] < b[2])

\* C17: the warnings ValidateGuidelines returns are the deserved ones, each
\* once, in this order: the empty name, then the missing guidelines, then
\* guideline by guideline in the order of the set, numbered from 1 by
\* position, the missing title, the missing description, the missing rules
\* and examples; a set with the name "" and no guideline gets exactly the
\* two warnings of the set, the name first.
C17_WarningOrder ==
    (pc = "validated") =>
        /\ \A k \in 1..(Len(warnings) - 1) :
              KeyBefore(WarningKey(warnings[k]), WarningKey(warnings[k + 1]))
        /\ {WarningKey(warnings[k]) : k \in 1..Len(warnings)}
              = DeservedKeys(guidelineSet)
        /\ (guidelineSet.Name = <<>> /\ guidelineSet.Guidelines = <<>>) =>
              warnings = <<str_name_is_empty, str_no_guidelines>>

\* C17 witness: a set without name whose second guideline lacks title,
\* description, rules and examples was validated, the first guideline
\* lacking something too.
C17_Witness ==
    /\ pc = "validated"
    /\ guidelineSet.Name = <<>>
    /\ Len(guidelineSet.Guidelines) = 2
    /\ Len(warnings) >= 5
    /\ WarningKey(warnings[Len(warnings)]) = <<2, 3>>

---------------------------------------------------------------------------
(* Properties of the handlers and of the registry.                         *)

\* the document at the path cannot be opened or cannot be read
Unavailable(path) ==
    Files[path].open # <<>> \/ Files[path].read # <<>>

\* the error the file system reports for an unavailable document
FileCause(path) ==
    IF Files[path].open # <<>>
    THEN [Op |-> str_open, Path |-> path, Err |-> Files[path].open]
    ELSE [Op |-> str_read, Path |-> path, Err |-> Files[path].read]

\* the functions that are not to be reached without a document
ParserAndAfter ==
    {"ParseGuidelines", "ValidateGuidelines", "LoadGuidelines"}

\* C11: a step of LoadGuidelinesHandler on a document that cannot be opened
\* or read ends with an error whose cause is the error of the file system
\* and whose text ends with the text of that cause, with no set, without a
\* call of ParseGuidelines, ValidateGuidelines or LoadGuidelines, and with
\* the registry and the loaded sets as they were.
C11_UnavailableDocument ==
    [][(request'.tool = "load_guidelines" /\ Unavailable(request'.path))
       => /\ loadErr'.cause = FileCause(request'.path)
          /\ HasSuffix(loadErr'.msg, ErrorText(FileCause(request'.path)))
          /\ Len(loadErr'.msg) > Len(ErrorText(FileCause(request'.path)))
          /\ response'.guideline_set = NilSet
          /\ ~response'.success
          /\ HasSuffix(response'.Text, loadErr'.msg)
          /\ \A k \in DOMAIN calls' : calls'[k] \notin ParserAndAfter
          /\ UNCHANGED <<registry, heap, loads, warnings>>]_vars

\* C11 witness: after a set was loaded, the handler was called on a
\* document that opens and cannot be read.
C11_Witness ==
    /\ request.tool = "load_guidelines"
    /\ Files[request.path].open = <<>>
    /\ Files[request.path].read # <<>>
    /\ DOMAIN registry # {}
    /\ loadErr # NoError

\* the names of the sets passed to LoadGuidelines
LoadedNames ==
    {heap[loads[k]].Name : k \in 1..Len(loads)}

\* the pointer passed last to LoadGuidelines among those of a set named n
LastLoaded(n) ==
    loads[CHOOSE k \in 1..Len(loads) :
              /\ heap[loads[k]].Name = n
              /\ \A j \in (k + 1)..Len(loads) : heap[loads[j]].Name # n]

\* C12: after every sequence of loads the registry has exactly the names
\* loaded, as many entries as distinct names, and under each name the set
\* loaded last under it; a load leaves the entries of all other names, and
\* the sets they point to, as they were.
C12_LastLoadedWins ==
    /\ [](/\ DOMAIN registry = LoadedNames
          /\ Cardinality(DOMAIN registry) = Cardinality(LoadedNames)
          /\ \A n \in LoadedNames : registry[n] = LastLoaded(n))
    /\ [][loads' # loads =>
            \A n \in DOMAIN registry :
                n # heap'[loads'[Len(loads')]].Name =>
                    /\ n \in DOMAIN registry'
                    /\ registry'[n] = registry[n]
                    /\ heap'[registry'[n]] = heap[registry[n]]]_vars

\* C12 witness: three loads, the first and the last under the same name,
\* the second under another name.
C12_Witness ==
    /\ Len(loads) = 3
    /\ heap[loads[1]].Name = heap[loads[3]].Name
    /\ heap[loads[2]].Name # heap[loads[1]].Name
    /\ heap[loads[1]] # heap[loads[3]]
    /\ Cardinality(DOMAIN registry) = 2

\* the document at the path was opened and read
Readable(path) ==
    Files[path].open = <<>> /\ Files[path].read = <<>>

\* C13: after LoadGuidelinesHandler on a document that was read, the
\* result reports success, carries the warnings, and the set it returns is
\* the entry of the registry under the name of the set, whatever the
\* warnings are.
C13_WarningsAreAdvisory ==
    (request.tool = "load_guidelines" /\ Readable(request.path)) =>
        /\ response.success
        /\ response.guideline_set \in 1..Len(heap)
        /\ response.warnings = warnings
        /\ heap[response.guideline_set].Name \in DOMAIN registry
        /\ registry[heap[response.guideline_set].Name] = response.guideline_set

\* C13 witness: a document that yields three warnings was loaded.
C13_Witness ==
    /\ request.tool = "load_guidelines"
    /\ Readable(request.path)
    /\ Len(response.warnings) >= 3
    /\ response.success

\* C20: no step changes a set that was allocated, neither a load nor a call
\* of SuggestImprovements; ValidateGuidelines is only called on a set that
\* exists, and its warnings are those of the set as it still is.
C20_SetsImmutable ==
    /\ [][/\ Len(heap') >= Len(heap)
          /\ \A a \in 1..Len(heap) : heap'[a] = heap[a]]_vars
    /\ []((\E k \in DOMAIN calls : calls[k] = "ValidateGuidelines") =>
             /\ response.guideline_set \in 1..Len(heap)
             /\ response.warnings
                   = ValidateGuidelines(heap[response.guideline_set]))

\* C20 witness: SuggestImprovements found a rule of a loaded set in the
\* snippet, after two sets were loaded under the same name.
C20_Witness ==
    /\ request.tool = "suggest_improvements"
    /\ Len(response.Improvements) >= 1
    /\ Len(loads) >= 2
    /\ Cardinality(DOMAIN registry) = 1

---------------------------------------------------------------------------
(* Properties of repeated and of concurrent calls.                         *)

\* C18: the second of two calls of ParseGuidelines with the same content,
\* name and kind returns a set with the name, version, description and
\* guidelines of the first; the load timestamp is the only field that may
\* differ.
C18_SecondCallSameContent ==
    (pc = "done" /\ first # NoSet) =>
        /\ guidelineSet.Name = first.Name
        /\ guidelineSet.Version = first.Version
        /\ guidelineSet.Description = first.Description
        /\ guidelineSet.Guidelines = first.Guidelines
        /\ Len(guidelineSet.Guidelines) >= 1

\* C18 witness: the second call has returned a set with an example and
\* another timestamp than the set of the first call.
C18_Witness ==
    /\ pc = "done"
    /\ first # NoSet
    /\ guidelineSet.LoadedAt # first.LoadedAt
    /\ \E k \in 1..Len(first.Guidelines) : first.Guidelines[k].Examples # <<>>

\* C19: under every interleaving of two calls of ParseGuidelines on the
\* same Parser, each call returns the set it returns for its arguments when
\* it runs alone.
C19_ConcurrentCallsAsAlone ==
    /\ (pc = "done") =>
          guidelineSet = ParseGuidelines(content, name, guidelineType, now)
    /\ (other.pc = "done") =>
          other.guidelineSet = ParseGuidelines(other.content, other.name,
                                               other.guidelineType, other.now)

\* C19 witness: a call has returned while the call of the other goroutine,
\* on another document, was stopped inside a code block.
C19_Witness ==
    /\ pc = "done"
    /\ other.pc = "scan"
    /\ other.inCodeBlock
    /\ other.lineIdx < Len(other.lines)
    /\ other.content # content
    /\ \E k \in 1..Len(guidelineSet.Guidelines) :
          guidelineSet.Guidelines[k].Examples # <<>>

---------------------------------------------------------------------------
(* Properties of the scan loop of parseSection, line by line.              *)

\* the scan loop is about to look at a line
AtLine ==
    pc = "scan" /\ lineIdx < Len(lines)

\* C23: a step that scans, inside a code block, a line that is no fence
\* appends the line and a newline to the code accumulator and changes
\* neither the guideline nor the current example nor the code block state,
\* whatever the line looks like.
C23_CodeBlockLinesAccumulate ==
    [][(AtLine /\ inCodeBlock /\ ~HasPrefix(CurLine, str_fence) /\ pc' = "scan")
       => /\ currentContent' = currentContent \o CurLine \o <<NL>>
          /\ UNCHANGED <<guideline, inCodeBlock, currentExample>>]_vars

\* a trimmed line of the heading pattern: number signs, white space, text
IsHeadingLine(line) ==
    /\ Len(line) >= 3
    /\ line[1] = "#"
    /\ line[RunLen(line, 1, {"#"}) + 1] \in SpaceChars

\* the text of a trimmed heading line after the number signs and the white
\* space
HeadingText(line) ==
    LET h == RunLen(line, 1, {"#"})
    IN  SubSeq(line, h + 1 + RunLen(line, h + 1, SpaceChars), Len(line))

\* a heading line was scanned before in the section
HeadingScanned ==
    \E j \in 1..lineIdx : IsHeadingLine(TrimSpace(lines[j]))

\* C24: the step that scans the first heading line of a section sets the
\* title to the heading text, and category and priority to those inferred
\* from it, and nothing else; a step that scans a later heading line of the
\* section changes neither the guideline nor the code block state, the
\* current example or the accumulator.
C24_OnlyFirstHeading ==
    [][(AtLine /\ IsHeadingLine(CurLine) /\ pc' = "scan")
       => /\ UNCHANGED <<currentContent, inCodeBlock, currentExample>>
          /\ IF HeadingScanned
             THEN guideline' = guideline
             ELSE guideline' =
                    [guideline EXCEPT
                        !.Title = HeadingText(CurLine),
                        !.Category = inferCategory(HeadingText(CurLine)),
                        !.Priority = inferPriority(HeadingText(CurLine))]]_vars

\* C24 witness: a second heading line of a section was scanned after the
\* description was set, the title being the one of the first.
C24_Witness ==
    /\ pc = "scan"
    /\ lastKind = "header"
    /\ lineIdx >= 3
    /\ guideline.Description # <<>>
    /\ guideline.Title = HeadingText(TrimSpace(lines[1]))
    /\ guideline.Title # HeadingText(TrimSpace(lines[lineIdx]))

\* a trimmed line with one of the words of an example header
HasExampleWord(line) ==
    \E w \in {kw_example, kw_good, kw_bad} : Contains(ToLower(line), w)

\* a trimmed line that is no heading, no fence and no list item
IsPlainLine(line) ==
    /\ ~IsHeadingLine(line)
    /\ ~HasPrefix(line, str_fence)
    /\ ~IsListLine(line)

\* C25: a step that scans an example header, outside a code block, appends
\* the current example to the examples exactly when there is one with a
\* good or a bad part, changes nothing else of the guideline, and leaves as
\* current example a new one with the line as title and nothing else; an
\* example without good and bad part is dropped with its explanation.
C25_ExampleHeaderFlushes ==
    [][(AtLine /\ ~inCodeBlock /\ IsPlainLine(CurLine)
        /\ HasExampleWord(CurLine) /\ pc' = "scan")
       => /\ guideline' =
               IF /\ ~currentExample.isNil
                  /\ (currentExample.Good # <<>> \/ currentExample.Bad # <<>>)
               THEN [guideline EXCEPT !.Examples =
                       Append(@, [Title |-> currentExample.Title,
                                  Good |-> currentExample.Good,
                                  Bad |-> currentExample.Bad,
                                  Explanation |-> currentExample.Explanation])]
               ELSE guideline
          /\ currentExample' = [isNil |-> FALSE, Title |-> CurLine,
                                Good |-> <<>>, Bad |-> <<>>,
                                Explanation |-> <<>>]
          /\ UNCHANGED <<currentContent, inCodeBlock>>]_vars

\* C25 witness: an example header was scanned while the current example had
\* an explanation and neither good nor bad part; the example is gone.
C25_Witness ==
    /\ pc = "scan"
    /\ lastKind = "example"
    /\ lineIdx = 4
    /\ HasExampleWord(TrimSpace(lines[1]))
    /\ lines[2] = L_text
    /\ lines[3] = L_text
    /\ guideline.Description = L_text
    /\ guideline.Examples = <<>>
    /\ currentExample.Explanation = <<>>

\* the number of fence lines among the first i - 1 lines of a section
FencesBefore(ls, i) ==
    Cardinality({j \in 1..(i - 1) : HasPrefix(TrimSpace(ls[j]), str_fence)})

\* line i of a section is a non-empty plain-text line outside a code block
IsTextLine(ls, i) ==
    LET line == TrimSpace(ls[i])
    IN  /\ line # <<>>
        /\ IsPlainLine(line)
        /\ ~HasExampleWord(line)
        /\ FencesBefore(ls, i) % 2 = 0

\* the description a section with these lines and this title ends with
DescriptionOf(ls, title) ==
    LET texts == {i \in 1..Len(ls) : IsTextLine(ls, i)}
    IN  IF texts # {}
        THEN TrimSpace(ls[CHOOSE i \in texts : \A j \in texts : i <= j])
        ELSE title

\* C26: a step on a non-empty plain-text line sets the description when it
\* is unset, whether or not there is a current example; otherwise it sets
\* the explanation of the current example when there is one without
\* explanation; otherwise it changes nothing.  The guideline a section ends
\* with has as description the first such line of the section, and the
\* title (which may be empty) when the section has no such line.
C26_DescriptionThenExplanation ==
    /\ [][(AtLine /\ ~inCodeBlock /\ CurLine # <<>> /\ IsPlainLine(CurLine)
           /\ ~HasExampleWord(CurLine) /\ pc' = "scan")
          => /\ IF guideline.Description = <<>>
                THEN /\ guideline' = [guideline EXCEPT !.Description = CurLine]
                     /\ currentExample' = currentExample
                ELSE IF ~currentExample.isNil
                        /\ currentExample.Explanation = <<>>
                THEN /\ currentExample' =
                          [currentExample EXCEPT !.Explanation = CurLine]
                     /\ guideline' = guideline
                ELSE UNCHANGED <<guideline, currentExample>>
             /\ UNCHANGED <<currentContent, inCodeBlock>>]_vars
    /\ []((pc = "loop" /\ secIdx > 0)
          => /\ Len(guidelines) = secIdx
             /\ guidelines[secIdx].Description =
                  DescriptionOf(lines, guidelines[secIdx].Title))

\* C26 witness: a plain-text line became the description although a current
\* example without explanation existed.
C26_Witness ==
    /\ pc = "scan"
    /\ lastKind = "text"
    /\ lineIdx >= 2
    /\ ~currentExample.isNil
    /\ currentExample.Explanation = <<>>
    /\ guideline.Description # <<>>
    /\ guideline.Description = TrimSpace(lines[lineIdx])

\* a section without plain-text line ended with its title as description
C26_TitleAsDescription ==
    /\ pc = "loop" /\ secIdx > 0
    /\ guidelines[secIdx].Title # <<>>
    /\ guidelines[secIdx].Description = guidelines[secIdx].Title
    /\ \A i \in 1..Len(lines) : ~IsTextLine(lines, i)

---------------------------------------------------------------------------
(* Properties of the returned set as a whole.                              *)

\* the warnings ValidateGuidelines returns, as a set
WarningsOf(set) ==
    {ValidateGuidelines(set)[k] : k \in 1..Len(ValidateGuidelines(set))}

\* C27: the set ParseGuidelines returns has as many guidelines as
\* splitIntoSections returns sections for the input, at least one, also for
\* the empty input; the ids are guideline_1 .. guideline_N in this order; and
\* ValidateGuidelines does not report "No guidelines found in the set" for it.
C27_OneGuidelinePerSection ==
    Returned =>
        LET N == Len(splitIntoSections(content))
        IN  /\ N >= 1
            /\ Len(guidelineSet.Guidelines) = N
            /\ \A k \in 1..N :
                  guidelineSet.Guidelines[k].ID = str_guideline_ \o Itoa(k)
            /\ str_no_guidelines \notin WarningsOf(guidelineSet)

\* C27 witness: the empty input has been parsed into one guideline, and the
\* validator has something to say about the set, but not that it is empty.
C27_Witness ==
    /\ Returned
    /\ content = <<>>
    /\ Len(guidelineSet.Guidelines) = 1
    /\ WarningsOf(guidelineSet) # {}

\* the lines of the input after the first that match the heading pattern
LaterHeadings(text) ==
    {j \in 2..Len(Split(text)) : HeaderMatch(Split(text)[j])}

\* C28: every section splitIntoSections returns is non-empty and ends with
\* a newline; a line that matches the heading pattern is the first line of
\* its section; and there is one section more than there are heading lines
\* after the first line of the input, whether or not they are between code
\* fences.
C28_SectionsStartAtHeadings ==
    SplitDone =>
        /\ \A k \in 1..Len(sections) :
              /\ Len(sections[k]) > 0
              /\ sections[k][Len(sections[k])] = NL
              /\ \A j \in 2..Len(Split(sections[k])) :
                    ~HeaderMatch(Split(sections[k])[j])
        /\ Len(sections) = 1 + Cardinality(LaterHeadings(content))

\* C28 witness: the input has a heading line after an opening fence that is
\* not closed before it, and the section that starts with this heading is
\* the second of two.
C28_Witness ==
    /\ SplitDone
    /\ Len(sections) = 2
    /\ \E j \in LaterHeadings(content) :
          /\ FencesBefore(Split(content), j) % 2 = 1
          /\ HasPrefix(sections[2], Split(content)[j] \o <<NL>>)

---------------------------------------------------------------------------
(* Properties of a fence that is not closed within its section.            *)

\* line i of a section, and every line after it, follows an opening fence
\* that the section does not close
UnclosedFrom(ls, i) ==
    /\ FencesBefore(ls, i) % 2 = 1
    /\ \A j \in i..Len(ls) : ~HasPrefix(TrimSpace(ls[j]), str_fence)

\* C29: the scan of every section starts outside a code block, with an
\* empty accumulator and without current example.  A step on a line after a
\* fence that its section does not close leaves rules, examples,
\* description and the current example (good, bad and explanation) as they
\* are, and the end of such a section appends at most the current example
\* as it was when the fence opened: what the accumulator holds is dropped.
C29_UnclosedFenceSwallows ==
    /\ []((pc = "scan" /\ lineIdx = 0)
          => (~inCodeBlock /\ currentContent = <<>> /\ currentExample.isNil))
    /\ [][(AtLine /\ UnclosedFrom(lines, lineIdx + 1) /\ pc' = "scan")
          => /\ guideline'.Rules = guideline.Rules
             /\ guideline'.Examples = guideline.Examples
             /\ guideline'.Description = guideline.Description
             /\ currentExample' = currentExample
             /\ inCodeBlock']_vars
    /\ [][(pc = "scan" /\ lineIdx = Len(lines) /\ pc' = "loop"
           /\ FencesBefore(lines, Len(lines) + 1) % 2 = 1)
          => /\ guidelines'[secIdx'].Rules = guideline.Rules
             /\ guidelines'[secIdx'].Description
                  \in {guideline.Description, guideline.Title}
             /\ \/ guidelines'[secIdx'].Examples = guideline.Examples
                \/ /\ ~currentExample.isNil
                   /\ guidelines'[secIdx'].Examples =
                        Append(guideline.Examples,
                               [Title |-> currentExample.Title,
                                Good |-> currentExample.Good,
                                Bad |-> currentExample.Bad,
                                Explanation |-> currentExample.Explanation])]_vars

\* C29 witness: after a fence that the section does not close, a code line,
\* a list item and an example header have been scanned; the guideline has no
\* rule, the accumulator holds the lines, and the current example is the one
\* of the closed block before.
C29_Witness ==
    /\ pc = "scan"
    /\ inCodeBlock
    /\ guideline.Rules = <<>>
    /\ currentContent # <<>>
    /\ ~currentExample.isNil
    /\ currentExample.Good # <<>>
    /\ \E i, j \in 1..lineIdx :
          /\ UnclosedFrom(lines, i)
          /\ UnclosedFrom(lines, j)
          /\ IsListLine(TrimSpace(lines[i]))
          /\ IsPlainLine(TrimSpace(lines[j]))
          /\ HasExampleWord(TrimSpace(lines[j]))

---------------------------------------------------------------------------
(* Properties of applyGuidelines.                                          *)

\* sub occurs in s: s is some text, sub, and some text
IsSubstring(sub, s) ==
    \E a, b \in 0..Len(s) : a <= b /\ SubSeq(s, a + 1, b) = sub

\* the (guideline, rule) positions of a set whose rule occurs in the code
MatchingPairs(code, set) ==
    {p \in (1..Len(set.Guidelines)) \X (1..MaxRules + 1) :
        /\ p[2] <= Len(set.Guidelines[p[1]].Rules)
        /\ IsSubstring(set.Guidelines[p[1]].Rules[p[2]], code)}

\* guideline order, then rule order
PairBefore(p, q) ==
    p[1] < q[1] \/ (p[1] = q[1] /\ p[2] < q[2])

\* C21: applyGuidelines returns one improvement for every (guideline, rule)
\* pair of the set whose rule is a literal substring of the code, and no
\* other; the improvements are in guideline order, then rule order, and each
\* has the id of its guideline as guideline_ref, its description and its
\* priority.
C21_OneImprovementPerMatchingRule ==
    (pc = "applied") =>
        LET P == MatchingPairs(request.code, guidelineSet)
            imp == response.Improvements
        IN  /\ Len(imp) = Cardinality(P)
            /\ \A p \in P :
                  LET k == Cardinality({q \in P : PairBefore(q, p)}) + 1
                      g == guidelineSet.Guidelines[p[1]]
                  IN  /\ imp[k].GuidelineRef = g.ID
                      /\ imp[k].Description = g.Description
                      /\ imp[k].Priority = g.Priority

\* C21 witness: a set of two guidelines with two rules each; both rules of
\* the first, one of the second occur in the code; three improvements.
C21_Witness ==
    /\ pc = "applied"
    /\ Len(guidelineSet.Guidelines) = 2
    /\ Len(guidelineSet.Guidelines[1].Rules) = 2
    /\ Len(guidelineSet.Guidelines[2].Rules) = 2
    /\ guidelineSet.Guidelines[1].Description # guidelineSet.Guidelines[2].Description
    /\ Cardinality(MatchingPairs(request.code, guidelineSet)) = 3
    /\ Len(response.Improvements) = 3
    /\ response.Improvements[3].GuidelineRef = GuidelineID(2)

---------------------------------------------------------------------------
(* Properties of the TypeScript compiler tool.                             *)

\* the words of a command line: the program, named by the last element of
\* its path, and the arguments
CommandLine(c) ==
    <<Base(c.name)>> \o c.args

\* the command is "tsc --noEmit --pretty false ..." or
\* "npx tsc --noEmit --pretty false ..."
IsTscNoEmit(c) ==
    \/ HasPrefix(CommandLine(c), <<str_tsc, arg_noEmit, arg_pretty, str_false>>)
    \/ HasPrefix(CommandLine(c),
                 <<str_npx, str_tsc, arg_noEmit, arg_pretty, str_false>>)

\* C22, as stated: every command TypeCheck runs is the TypeScript compiler
\* with --noEmit, directly or through npx, whatever exec.LookPath("npx")
\* returned when the tool was made, and the commands of CheckTSCAvailable
\* run the same program as those of TypeCheck.
C22_TypeCheckRunsTscNoEmit ==
    \A k \in 1..Len(commands) :
        (commands[k].by = "TypeCheck")
        => /\ IsTscNoEmit(commands[k])
           /\ \A j \in 1..Len(commands) :
                 (commands[j].by = "CheckTSCAvailable")
                 => Base(commands[j].name) = Base(commands[k].name)

\* where C22 does hold: the tool was made when npx was not found, or found
\* under its bare name
C22_HoldsForBareNames ==
    (~tscTool.isNil /\ tscTool.tscPath \in {str_tsc, str_npx})
    => C22_TypeCheckRunsTscNoEmit

---------------------------------------------------------------------------
(* Properties of two requests handled at the same time.                    *)

\* C30, as stated: LoadGuidelines never assigns to the map while the range
\* loop of SuggestImprovements is under way, and what the loop has seen
\* under a name is a set loaded under this name, as a whole.
C30_NoWriteWhileRanging ==
    /\ ~(loader.pc = "writing" /\ reader.pc = "ranging")
    /\ reader.pc # "fatal"
    /\ (reader.pc = "ranging")
       => \A i \in 1..Len(reader.seen) :
             /\ reader.seen[i][2] \in 1..Len(heap)
             /\ heap[reader.seen[i][2]].Name = reader.seen[i][1]

\* what the goroutines do keep: a set seen by the loop is a whole set of the
\* heap with the name it was found under
C30_SeenSetsAreWhole ==
    (reader.pc = "ranging")
    => \A i \in 1..Len(reader.seen) :
          /\ reader.seen[i][2] \in 1..Len(heap)
          /\ heap[reader.seen[i][2]].Name = reader.seen[i][1]

====
